---- MODULE Spec2Model ----
(***************************************************************************)
(* The two proxy-wasm filters of the policy enforcement point:             *)
(*   - the server filter (wasm/server-filter/main.go), which runs on the   *)
(*     callee's sidecar, checks the bearer credential and asks the policy  *)
(*     decision service before letting a request through;                  *)
(*   - the client filter (wasm/client-filter/main.go), which runs on the   *)
(*     caller's sidecar and injects a token from the JWT vending service.  *)
(* Spec runs the filters on request streams.  RedeliverySpec adds a host   *)
(* that hands a result to a callback twice or after teardown.  FlowSpec    *)
(* follows one call of Service A to Service B through both sidecars, with  *)
(* the JWT vending service, the policy decision service and Service B.     *)
(* ServerFilterSpec runs the server filter on one inbound request,         *)
(* InterleavedSpec runs streams side by side, PdpSpec runs the policy      *)
(* decision service and ServiceBSpec runs Service B on direct requests.    *)
(*                                                                         *)
(* A Go string is a sequence of symbols.  A symbol is either one           *)
(* structural character (a quote, a backslash, a dot, a brace ...) or an   *)
(* atom that stands for a run of ordinary characters; every substring the  *)
(* code searches for is a sequence of whole symbols.                       *)
(***************************************************************************)
EXTENDS Integers, Sequences, FiniteSets, TLC

VARIABLES
    filter,         \* per stream: which plugin's NewHttpContext made the context
    origHeaders,    \* host: request headers as the stream delivered them
    reqHeaders,     \* host: current request header map of the stream
    handlerAction,  \* host: types.Action returned by OnHttpRequestHeaders
    sent,           \* host: local responses sent with SendHttpResponse
    resumed,        \* host: number of ResumeHttpRequest calls
    attempts,       \* host: number of DispatchHttpCall invocations
    calls,          \* host: accepted dispatches (cluster, headers, body, timeout)
    pending,        \* host: an accepted dispatch still waits for its callback
    delivered,      \* host: call results delivered to the context's callback
    nextCalloutID,  \* host: next callout token
    requestPath,    \* server httpContext.requestPath
    requestMethod,  \* server httpContext.requestMethod
    jwtToken,       \* server httpContext.jwtToken
    principalID,    \* server httpContext.principalID
    assetID,        \* server httpContext.assetID
    calloutID,      \* server httpContext.calloutID
    destroyed,      \* host: the stream was torn down while its dispatch was outstanding
    stage,          \* end-to-end call: where the call of Service A to Service B stands
    callReq,        \* Service A: the decoded CallServiceBRequest
    tokenOfA,       \* Service A: the token getJWTToken returned
    wire,           \* the request of Service A to Service B, as its headers travel
    ingressFields,  \* end-to-end call: the server filter's httpContext fields
    pdpAnswer,      \* end-to-end call: what the server filter's callback was handed
    downstream,     \* end-to-end call: the response callServiceB receives
    reply,          \* Service A: the CallServiceBResponse and its status
    callBody,       \* Service A: the JSON body posted to /call-service-b
    tokenErr,       \* Service A: the error getJWTToken returned
    issuerAnswer,   \* end-to-end call: what the client filter's callback was handed
    downstreamBody, \* end-to-end call: the body of the response callServiceB receives
    responseFromB,  \* Service A: CallServiceBResponse.ResponseFrom
    policyRules,    \* policy service: the package variable policyRules
    pdpRequest,     \* policy service: the request being served
    pdpResponse     \* policy service: the response written to it

hostVars == <<filter, origHeaders, reqHeaders, handlerAction, sent, resumed,
              attempts, calls, pending, delivered, nextCalloutID>>
ctxVars == <<requestPath, requestMethod, jwtToken, principalID, assetID, calloutID>>
flowVars == <<stage, callReq, tokenOfA, wire, ingressFields, pdpAnswer, downstream, reply,
              callBody, tokenErr, issuerAnswer, downstreamBody, responseFromB>>
pdpVars == <<policyRules, pdpRequest, pdpResponse>>
vars == <<hostVars, ctxVars, destroyed, flowVars, pdpVars>>

\* Number of request streams (one httpContext each).
NumCtx == 1
Ctx == 1..NumCtx

(***************************************************************************)
(* Go strings package                                                      *)
(***************************************************************************)
HasPrefix(s, p) == Len(s) >= Len(p) /\ SubSeq(s, 1, Len(p)) = p

TrimPrefix(s, p) == IF HasPrefix(s, p) THEN SubSeq(s, Len(p) + 1, Len(s)) ELSE s

\* strings.Index, 1-based; 0 stands for Go's -1.
Index(s, sub) ==
    LET hits == {i \in 1..(Len(s) - Len(sub) + 1) : SubSeq(s, i, i + Len(sub) - 1) = sub}
    IN IF hits = {} THEN 0 ELSE CHOOSE i \in hits : \A j \in hits : i <= j

RECURSIVE Split(_, _)
Split(s, sep) ==
    LET i == Index(s, sep)
    IN IF i = 0 THEN <<s>>
       ELSE <<SubSeq(s, 1, i - 1)>> \o Split(SubSeq(s, i + Len(sep), Len(s)), sep)

(***************************************************************************)
(* Host header map                                                         *)
(***************************************************************************)
\* A header map is a sequence of <<name, value>> entries.
HasHeader(hs, name) == \E i \in 1..Len(hs) : hs[i][1] = name

\* proxywasm.GetHttpRequestHeader: the first entry's value, err when none.
GetHttpRequestHeader(hs, name) ==
    IF HasHeader(hs, name)
    THEN [err |-> FALSE,
          val |-> hs[CHOOSE i \in 1..Len(hs) :
                        /\ hs[i][1] = name
                        /\ \A j \in 1..(i - 1) : hs[j][1] # name][2]]
    ELSE [err |-> TRUE, val |-> <<>>]

\* proxywasm.AddHttpRequestHeader: appends an entry.
AddHttpRequestHeader(hs, name, value) == Append(hs, <<name, value>>)

\* proxywasm.ReplaceHttpRequestHeader: one entry of that name, with the value.
ReplaceHttpRequestHeader(hs, name, value) ==
    Append(SelectSeq(hs, LAMBDA e : e[1] # name), <<name, value>>)

(***************************************************************************)
(* Server filter (ingress): constants and helpers                          *)
(***************************************************************************)
pdpServiceCluster == <<"sgnl-pdp-service">>
pdpServicePath == <<"/access/v2/evaluations">>

Bearer == <<"Bearer", " ">>
Dot == <<".">>
AssetKey == <<"asset", "=">>
Amp == <<"&">>
ContentTypeJSON == << <<"content-type", <<"application/json">>>> >>

\* Bearer tokens.  JwtHeader is {"alg":"RS256","typ":"JWT"}; PayloadA is the
\* base64url text of {"sub":"service-a"}; "!!!" is no base64url text.
JwtHeader == "eyJhbGciOiJSUzI1NiIsInR5cCI6IkpXVCJ9"
PayloadA == "eyJzdWIiOiJzZXJ2aWNlLWEifQ"
TokenA == <<JwtHeader, ".", PayloadA, ".", "c2ln">>
TokenUndecodable == <<JwtHeader, ".", "!!!", ".", "c2ln">>
TokenTwoSegments == <<JwtHeader, ".", PayloadA>>

\* What decoding a token's payload segment (base64url, then JSON) yields:
\* PayloadA is {"sub":"service-a"}; "!!!" does not decode.
PayloadSegment(token) ==
    LET parts == Split(token, Dot) IN IF Len(parts) >= 2 THEN parts[2] ELSE <<>>
DecodePayload(segment) ==
    IF segment = <<PayloadA>> THEN [ok |-> TRUE, sub |-> <<"service-a">>]
    ELSE [ok |-> FALSE, sub |-> <<>>]

\* A faulty variant of sendUnauthorizedResponse: the response goes out as a
\* 403.
sendUnauthorizedResponse_Forbidden(message) ==
    [status |-> 403,
     headers |-> ContentTypeJSON,
     body |-> <<"{", "\"", "error", "\"", ":", "\"">> \o message \o <<"\"", "}">>]

\* sendUnauthorizedResponse: fmt.Sprintf(`{"error":"%s"}`, message), status 401.
sendUnauthorizedResponse(message) ==
    [status |-> 401,
     headers |-> ContentTypeJSON,
     body |-> <<"{", "\"", "error", "\"", ":", "\"">> \o message \o <<"\"", "}">>]

\* sendForbiddenResponse:
\* fmt.Sprintf(`{"error":"%s","pdp_response":{"decision":"Deny","reason":"%s"}}`, ...), status 403.
sendForbiddenResponse(message, reason) ==
    [status |-> 403,
     headers |-> ContentTypeJSON,
     body |-> <<"{", "\"", "error", "\"", ":", "\"">> \o message
              \o <<"\"", ",", "\"", "pdp_response", "\"", ":", "{",
                   "\"", "decision", "\"", ":", "\"", "Deny", "\"", ",",
                   "\"", "reason", "\"", ":", "\"">> \o reason
              \o <<"\"", "}", "}">>]

\* extractSubFromPath: the X-Service-ID header when present and non-empty,
\* "service-a" otherwise; the path argument is not used.
extractSubFromPath(hs, path) ==
    LET serviceID == GetHttpRequestHeader(hs, "X-Service-ID")
    IN IF ~serviceID.err /\ serviceID.val # <<>> THEN serviceID.val ELSE <<"service-a">>

\* A faulty variant of parseJWTClaims: the payload segment is decoded and
\* "sub" is taken from it.
parseJWTClaims_ReadsPayload(hs, path, token) ==
    IF Len(Split(token, Dot)) # 3
    THEN [err |-> TRUE, msg |-> <<"invalid JWT format">>, sub |-> <<>>]
    ELSE LET claims == DecodePayload(PayloadSegment(token))
         IN IF claims.ok THEN [err |-> FALSE, msg |-> <<>>, sub |-> claims.sub]
            ELSE [err |-> TRUE, msg |-> <<"invalid JWT payload">>, sub |-> <<>>]

\* parseJWTClaims: an error unless the token splits into three segments on
\* "."; the claims map then holds "sub" from extractSubFromPath.
parseJWTClaims(hs, path, token) ==
    IF Len(Split(token, Dot)) # 3
    THEN [err |-> TRUE, msg |-> <<"invalid JWT format">>, sub |-> <<>>]
    ELSE [err |-> FALSE, msg |-> <<>>, sub |-> extractSubFromPath(hs, path)]

\* extractAssetFromPath: what follows the first "asset=" up to the next "&".
extractAssetFromPath(path) ==
    LET parts == Split(path, AssetKey)
    IN IF Len(parts) < 2 THEN <<>>
       ELSE LET asset == parts[2]
                idx == Index(asset, Amp)
            IN IF idx # 0 THEN SubSeq(asset, 1, idx - 1) ELSE asset

\* The EvaluationRequest of OnHttpRequestHeaders; encoding/json escapes the
\* strings, so the request is kept as the structure the service decodes.
EvaluationRequest(principal, asset) ==
    [principal |-> [id |-> principal],
     queries |-> << [assetId |-> asset, action |-> <<"call">>] >>]

PDPCall(principal, asset) ==
    [cluster |-> pdpServiceCluster,
     method |-> <<"POST">>,
     path |-> pdpServicePath,
     authority |-> <<"sgnl-pdp-service:8082">>,
     body |-> EvaluationRequest(principal, asset),
     timeout |-> 5000]

(***************************************************************************)
(* Server filter: OnHttpRequestHeaders and OnHttpCallResponse              *)
(***************************************************************************)
\* The fields of a fresh httpContext (Go zero values).
ZeroCtx == [requestPath |-> <<>>, requestMethod |-> <<>>, jwtToken |-> <<>>,
            principalID |-> <<>>, assetID |-> <<>>]

\* A faulty variant of ServerEffect: the handler's local response is not sent.
ServerEffect_DropsResponse(action, f, resp, attempted) ==
    [action |-> action, ctx |-> f, sent |-> <<>>, attempted |-> attempted]

\* What one run of the handler leaves behind: the returned action, the
\* context's fields, the local response sent (if any) and the dispatch made
\* (if any).  json.Marshal of a struct of strings cannot fail, so the
\* "Internal error" branch has no case.
ServerEffect(action, f, resp, attempted) ==
    [action |-> action, ctx |-> f, sent |-> resp, attempted |-> attempted]

\* A faulty variant of ServerPrincipalStep: an empty asset id is not replaced
\* by "default-asset".
ServerPrincipalStep_NoDefault(hs, f1, sub) ==
    IF sub = <<>>
    THEN ServerEffect("Pause", f1,
                      <<sendUnauthorizedResponse(<<"JWT missing 'sub' claim">>)>>, FALSE)
    ELSE LET f2 == [f1 EXCEPT !.principalID = sub,
                              !.assetID = extractAssetFromPath(f1.requestPath)]
         IN ServerEffect("Pause", f2, <<>>, TRUE)

ServerPrincipalStep(hs, f1, sub) ==
    \* lines 125-138: the principal and the asset id
    IF sub = <<>>
    THEN ServerEffect("Pause", f1,
                      <<sendUnauthorizedResponse(<<"JWT missing 'sub' claim">>)>>, FALSE)
    ELSE LET asset == extractAssetFromPath(f1.requestPath)
             f2 == [f1 EXCEPT !.principalID = sub,
                              !.assetID = IF asset = <<>> THEN <<"default-asset">>
                                          ELSE asset]
         IN ServerEffect("Pause", f2, <<>>, TRUE)

ServerAuthStep(hs, f0) ==
    \* lines 99-122: the Authorization header and the token
    LET authHeader == GetHttpRequestHeader(hs, "Authorization")
    IN IF authHeader.err \/ authHeader.val = <<>>
       THEN ServerEffect("Pause", f0,
                         <<sendUnauthorizedResponse(<<"Missing Authorization header">>)>>,
                         FALSE)
       ELSE IF ~HasPrefix(authHeader.val, Bearer)
       THEN ServerEffect("Pause", f0,
                         <<sendUnauthorizedResponse(
                             <<"Invalid Authorization header format">>)>>, FALSE)
       ELSE LET f1 == [f0 EXCEPT !.jwtToken = TrimPrefix(authHeader.val, Bearer)]
                claims == parseJWTClaims(hs, f1.requestPath, f1.jwtToken)
            IN IF claims.err
               THEN ServerEffect("Pause", f1,
                                 <<sendUnauthorizedResponse(
                                     <<"Invalid JWT: ">> \o claims.msg)>>, FALSE)
               ELSE ServerPrincipalStep(hs, f1, claims.sub)

\* OnHttpRequestHeaders up to the dispatch (lines 80-158).
ServerHeaders(hs) ==
    LET path == GetHttpRequestHeader(hs, ":path")
        method == GetHttpRequestHeader(hs, ":method")
    IN IF path.err
       THEN ServerEffect("Continue", ZeroCtx, <<>>, FALSE)
       ELSE IF method.err
       THEN ServerEffect("Continue", [ZeroCtx EXCEPT !.requestPath = path.val],
                         <<>>, FALSE)
       ELSE ServerAuthStep(hs, [ZeroCtx EXCEPT !.requestPath = path.val,
                                               !.requestMethod = method.val])

(***************************************************************************)
(* Inputs of the server filter                                             *)
(***************************************************************************)
PathHeaders == { <<>>,
                 << <<":path", <<"/process", "?", "asset", "=", "asset-x">>>> >>,
                 << <<":path", <<"/process">>>> >> }
MethodHeaders == { <<>>, << <<":method", <<"GET">>>> >> }
AuthorizationHeaders ==
    { <<>>,
      << <<"Authorization", <<>>>> >>,
      << <<"Authorization", <<"Basic", " ", "dXNlcjpwdw">>>> >>,
      << <<"Authorization", Bearer \o TokenA>> >>,
      << <<"Authorization", Bearer \o TokenUndecodable>> >>,
      << <<"Authorization", Bearer \o TokenTwoSegments>> >> }
CallerHeaders ==
    { <<>>,
      << <<"X-Service-ID", <<"service-a">>>>, <<"X-PDP-Decision", <<"Deny">>>> >>,
      << <<"X-Service-ID", <<"service-b">>>> >>,
      << <<"X-Service-ID", <<>>>> >> }

\* Inbound requests.  A request without :path or without :method (a CONNECT
\* request has no :path) is tried with every credential; no request lacks
\* both.
ServerRequestProduct ==
    { m \o p \o a \o x : m \in MethodHeaders, p \in PathHeaders,
                         a \in AuthorizationHeaders, x \in CallerHeaders }
\* Further query strings, each tried with a well-formed token: an empty
\* asset parameter, and a parameter whose name ends in "asset".
QueryPaths == { <<"/process", "?", "asset", "=">>,
                <<"/process", "?", "my", "asset", "=", "asset-y">> }
ServerRequests ==
    { r \in ServerRequestProduct :
          \/ HasHeader(r, ":method")
          \/ GetHttpRequestHeader(r, ":path").val = <<"/process">> }
    \cup { << <<":method", <<"GET">>>>, <<":path", p>>,
              <<"Authorization", Bearer \o TokenA>> >> : p \in QueryPaths }

\* Reason strings a decision can carry: plain, with a double quote, ending
\* in a backslash.
Reasons == { <<"Service service-a is not allowed to access asset-y">>,
             <<"Principal ", "\"", "x", "\"", " not found in policy">>,
             <<"C:", "\\">> }
Outcomes == {"Allow", "Deny"}
Decisions == [decision : Outcomes, reason : Reasons]

\* What the host hands to the callback.  cause "failure" is a transport
\* failure or the 5000 ms timeout: there is no body, so reading it yields an
\* error or no bytes.  cause "response" is an HTTP response of the service.
PDPResponses ==
    [cause : {"response"}, body : {"error", "unparseable"}, decisions : {<<>>}]
    \cup [cause : {"failure"}, body : {"error", "unparseable"}, decisions : {<<>>}]
    \cup [cause : {"response"}, body : {"parsed"},
          decisions : {<<>>} \cup {<<d>> : d \in Decisions}
                      \cup { <<[decision |-> "Deny", reason |-> <<>>],
                               [decision |-> "Allow", reason |-> <<>>]>>,
                             <<[decision |-> "Allow", reason |-> <<>>],
                               [decision |-> "Deny", reason |-> <<>>]>>,
                             <<[decision |-> "allow", reason |-> <<>>]>>,
                             <<[decision |-> "", reason |-> <<>>]>> }]

\* A faulty variant of PolicyFailure: the failure is logged and nothing else
\* is done.
PolicyFailure_Silent(hs) == [sent |-> <<>>, headers |-> hs, resume |-> FALSE]

\* A faulty variant of PolicyFailure: fails open, as the client filter does.
PolicyFailure_FailOpen(hs) == [sent |-> <<>>, headers |-> hs, resume |-> TRUE]

\* OnHttpCallResponse, lines 194-213: the body cannot be read or parsed, or
\* it holds no decision.  A local 403 is sent; the request is not resumed.
PolicyFailure(hs) ==
    [sent |-> <<sendForbiddenResponse(<<"Policy evaluation failed">>, <<>>)>>,
     headers |-> hs, resume |-> FALSE]

\* A faulty variant of PolicyDenied: the 403 is sent and the request resumed.
PolicyDenied_AndResume(hs, reason) ==
    [sent |-> <<sendForbiddenResponse(<<"Access denied by policy">>, reason)>>,
     headers |-> hs, resume |-> TRUE]

\* OnHttpCallResponse, lines 218-222: the first decision is not "Allow".
PolicyDenied(hs, reason) ==
    [sent |-> <<sendForbiddenResponse(<<"Access denied by policy">>, reason)>>,
     headers |-> hs, resume |-> FALSE]

\* A faulty variant of PolicyAllowed: the decision header is left out.
PolicyAllowed_NoDecisionHeader(hs, reason, principal) ==
    [sent |-> <<>>,
     headers |-> AddHttpRequestHeader(
                     AddHttpRequestHeader(hs, "X-PDP-Reason", reason),
                     "X-Principal-ID", principal),
     resume |-> TRUE]

\* A faulty variant of PolicyAllowed: the three headers are set in place of
\* any the caller sent under the same names.
PolicyAllowed_Replaces(hs, reason, principal) ==
    [sent |-> <<>>,
     headers |-> ReplaceHttpRequestHeader(
                     ReplaceHttpRequestHeader(
                         ReplaceHttpRequestHeader(hs, "X-PDP-Decision", <<"Allow">>),
                         "X-PDP-Reason", reason),
                     "X-Principal-ID", principal),
     resume |-> TRUE]

\* OnHttpCallResponse, lines 224-232: three headers are added and the request
\* is resumed.
PolicyAllowed(hs, reason, principal) ==
    [sent |-> <<>>,
     headers |-> AddHttpRequestHeader(
                     AddHttpRequestHeader(
                         AddHttpRequestHeader(hs, "X-PDP-Decision", <<"Allow">>),
                         "X-PDP-Reason", reason),
                     "X-Principal-ID", principal),
     resume |-> TRUE]

\* A faulty variant of ServerCallOutcome: an empty decision list is reported
\* with its own message.
ServerCallOutcome_OwnMessage(resp, principal, hs) ==
    IF resp.body \in {"error", "unparseable"}
    THEN PolicyFailure(hs)
    ELSE IF Len(resp.decisions) = 0
    THEN [sent |-> <<sendForbiddenResponse(<<"No decisions in PDP response">>, <<>>)>>,
          headers |-> hs, resume |-> FALSE]
    ELSE LET decision == resp.decisions[1]
         IN IF decision.decision # "Allow"
            THEN PolicyDenied(hs, decision.reason)
            ELSE PolicyAllowed(hs, decision.reason, principal)

\* A faulty variant of ServerCallOutcome: the last decision is the one used.
ServerCallOutcome_LastDecision(resp, principal, hs) ==
    IF resp.body \in {"error", "unparseable"}
    THEN PolicyFailure(hs)
    ELSE IF Len(resp.decisions) = 0
    THEN PolicyFailure(hs)
    ELSE LET decision == resp.decisions[Len(resp.decisions)]
         IN IF decision.decision # "Allow"
            THEN PolicyDenied(hs, decision.reason)
            ELSE PolicyAllowed(hs, decision.reason, principal)

\* A faulty variant of ServerCallOutcome: an answer with another status than
\* 200 counts as a failed evaluation.
ServerCallOutcome_ChecksStatus(resp, principal, hs) ==
    IF resp.body = "error" THEN PolicyFailure(hs)
    ELSE IF resp.status # 200 THEN PolicyFailure(hs)
    ELSE IF resp.body = "unparseable" THEN PolicyFailure(hs)
    ELSE IF Len(resp.decisions) = 0 THEN PolicyFailure(hs)
    ELSE LET decision == resp.decisions[1]
         IN IF decision.decision # "Allow"
            THEN PolicyDenied(hs, decision.reason)
            ELSE PolicyAllowed(hs, decision.reason, principal)

\* A faulty variant of ServerCallOutcome: only a first decision "Deny" is a
\* denial.
ServerCallOutcome_DenyOnly(resp, principal, hs) ==
    IF resp.body = "error" THEN PolicyFailure(hs)
    ELSE IF resp.body = "unparseable" THEN PolicyFailure(hs)
    ELSE IF Len(resp.decisions) = 0 THEN PolicyFailure(hs)
    ELSE LET decision == resp.decisions[1]
         IN IF decision.decision = "Deny"
            THEN PolicyDenied(hs, decision.reason)
            ELSE PolicyAllowed(hs, decision.reason, principal)

\* OnHttpCallResponse (lines 190-233): the local response sent (if any), the
\* request headers after the call, and whether ResumeHttpRequest is called.
ServerCallOutcome(resp, principal, hs) ==
    IF resp.body = "error"                       \* GetHttpCallResponseBody failed
    THEN PolicyFailure(hs)
    ELSE IF resp.body = "unparseable"            \* json.Unmarshal failed
    THEN PolicyFailure(hs)
    ELSE IF Len(resp.decisions) = 0
    THEN PolicyFailure(hs)
    ELSE LET decision == resp.decisions[1]
         IN IF decision.decision # "Allow"
            THEN PolicyDenied(hs, decision.reason)
            ELSE PolicyAllowed(hs, decision.reason, principal)

(***************************************************************************)
(* State machine                                                           *)
(***************************************************************************)
\* A faulty variant of Dispatches: a refused dispatch is tried once more.
Dispatches_Retry(attempted, dispatchOK) ==
    IF ~attempted THEN 0 ELSE IF dispatchOK THEN 1 ELSE 2

\* The DispatchHttpCall invocations of one run of OnHttpRequestHeaders: one
\* when the handler gets as far as the call (lines 168-174 of the server
\* filter, 429-441 of the client filter), whatever the host answers.
Dispatches(attempted, dispatchOK) == IF attempted THEN 1 ELSE 0

\* The end-to-end call before Service A is asked anything.
NoResponse == [from |-> "none", status |-> 0]
NoReply == [status |-> 0, success |-> FALSE]
NoAnswer == [cause |-> "none", body |-> "none", decisions |-> <<>>]
NoCallBody == [asset |-> <<>>, use_valid_token |-> "none"]
NoIssuerAnswer == [cause |-> "none", body |-> "none", token |-> <<>>]
NoResult == [form |-> "none", status |-> 0, body |-> <<>>]

\* sgnl-pdp policyRules as the package initialises it.
policyRulesInit ==
    (<<"service-a">> :> (<<"asset-x">> :> TRUE @@ <<"asset-y">> :> FALSE))
    @@ (<<"service-b">> :> (<<"asset-x">> :> TRUE @@ <<"asset-y">> :> TRUE))

\* The policy service before any request.
NoBody == [principal |-> [id |-> <<>>], queries |-> <<>>]
NoRequest == [endpoint |-> "none", method |-> "none", decodes |-> FALSE, body |-> NoBody]
NoPdpResponse == [status |-> 0, decisions |-> <<>>, policies |-> {}]

\* The state before any stream exists, for the streams S.
InitOver(S) ==
    /\ filter = [c \in S |-> "none"]
    /\ origHeaders = [c \in S |-> <<>>]
    /\ reqHeaders = [c \in S |-> <<>>]
    /\ handlerAction = [c \in S |-> "none"]
    /\ sent = [c \in S |-> <<>>]
    /\ resumed = [c \in S |-> 0]
    /\ attempts = [c \in S |-> 0]
    /\ calls = [c \in S |-> <<>>]
    /\ pending = [c \in S |-> FALSE]
    /\ delivered = [c \in S |-> <<>>]
    /\ nextCalloutID = 1
    /\ requestPath = [c \in S |-> <<>>]
    /\ requestMethod = [c \in S |-> <<>>]
    /\ jwtToken = [c \in S |-> <<>>]
    /\ principalID = [c \in S |-> <<>>]
    /\ assetID = [c \in S |-> <<>>]
    /\ calloutID = [c \in S |-> 0]
    /\ destroyed = [c \in S |-> FALSE]
    /\ stage = "idle"
    /\ callReq = [asset |-> <<>>, use_valid_token |-> FALSE]
    /\ tokenOfA = <<>>
    /\ wire = <<>>
    /\ ingressFields = ZeroCtx
    /\ pdpAnswer = NoAnswer
    /\ downstream = NoResponse
    /\ reply = NoReply
    /\ callBody = NoCallBody
    /\ tokenErr = "none"
    /\ issuerAnswer = NoIssuerAnswer
    /\ downstreamBody = <<>>
    /\ responseFromB = NoResult
    /\ policyRules = policyRulesInit
    /\ pdpRequest = NoRequest
    /\ pdpResponse = NoPdpResponse

Init == InitOver(Ctx)

\* pluginContext.NewHttpContext of the server filter: a request stream arrives
\* at the callee's sidecar and gets a fresh httpContext.
ServerNewHttpContext(c) ==
    /\ filter[c] = "none"
    /\ \E hs \in ServerRequests :
          /\ origHeaders' = [origHeaders EXCEPT ![c] = hs]
          /\ reqHeaders' = [reqHeaders EXCEPT ![c] = hs]
    /\ filter' = [filter EXCEPT ![c] = "server"]
    /\ UNCHANGED <<handlerAction, sent, resumed, attempts, calls, pending, delivered,
                   nextCalloutID, ctxVars, destroyed, flowVars, pdpVars>>

\* httpContext.OnHttpRequestHeaders of the server filter.  dispatchOK is the
\* host's answer to DispatchHttpCall.
ServerOnHttpRequestHeaders(c) ==
    /\ filter[c] = "server"
    /\ handlerAction[c] = "none"
    /\ \E dispatchOK \in BOOLEAN :
        LET e == ServerHeaders(reqHeaders[c])
            accepted == e.attempted /\ dispatchOK
        IN /\ handlerAction' = [handlerAction EXCEPT ![c] = e.action]
           /\ requestPath' = [requestPath EXCEPT ![c] = e.ctx.requestPath]
           /\ requestMethod' = [requestMethod EXCEPT ![c] = e.ctx.requestMethod]
           /\ jwtToken' = [jwtToken EXCEPT ![c] = e.ctx.jwtToken]
           /\ principalID' = [principalID EXCEPT ![c] = e.ctx.principalID]
           /\ assetID' = [assetID EXCEPT ![c] = e.ctx.assetID]
           /\ attempts' = [attempts EXCEPT ![c] = @ + Dispatches(e.attempted, dispatchOK)]
           /\ calls' = [calls EXCEPT ![c] =
                           IF accepted
                           THEN Append(@, PDPCall(e.ctx.principalID, e.ctx.assetID))
                           ELSE @]
           /\ calloutID' = [calloutID EXCEPT ![c] = IF accepted THEN nextCalloutID ELSE @]
           /\ nextCalloutID' = IF accepted THEN nextCalloutID + 1 ELSE nextCalloutID
           /\ pending' = [pending EXCEPT ![c] = accepted]
           /\ sent' = [sent EXCEPT ![c] =
                          IF e.attempted /\ ~dispatchOK
                          THEN @ \o PolicyFailure(reqHeaders[c]).sent
                          ELSE @ \o e.sent]
    /\ UNCHANGED <<filter, origHeaders, reqHeaders, resumed, delivered, destroyed,
                   flowVars, pdpVars>>

\* A faulty variant of ServerCallback: the principal is read from a place all
\* streams share (here: where the first stream keeps it), not from the
\* stream's own httpContext.
ServerCallback_SharedPrincipal(c, resp) ==
    LET o == ServerCallOutcome(resp, principalID[1], reqHeaders[c])
    IN /\ delivered' = [delivered EXCEPT ![c] = Append(@, resp)]
       /\ sent' = [sent EXCEPT ![c] = @ \o o.sent]
       /\ reqHeaders' = [reqHeaders EXCEPT ![c] = o.headers]
       /\ resumed' = [resumed EXCEPT ![c] = @ + (IF o.resume THEN 1 ELSE 0)]

\* One run of httpContext.OnHttpCallResponse on the result resp: the handler
\* looks at nothing but the result and ctx.principalID, and makes its host
\* calls (SendHttpResponse, AddHttpRequestHeader, ResumeHttpRequest).
ServerCallback(c, resp) ==
    LET o == ServerCallOutcome(resp, principalID[c], reqHeaders[c])
    IN /\ delivered' = [delivered EXCEPT ![c] = Append(@, resp)]
       /\ sent' = [sent EXCEPT ![c] = @ \o o.sent]
       /\ reqHeaders' = [reqHeaders EXCEPT ![c] = o.headers]
       /\ resumed' = [resumed EXCEPT ![c] = @ + (IF o.resume THEN 1 ELSE 0)]

\* httpContext.OnHttpCallResponse of the server filter: the host delivers the
\* result of the accepted dispatch.
OnHttpCallResponse(c) ==
    /\ filter[c] = "server"
    /\ pending[c]
    /\ \E resp \in PDPResponses : ServerCallback(c, resp)
    /\ pending' = [pending EXCEPT ![c] = FALSE]
    /\ UNCHANGED <<filter, origHeaders, handlerAction, attempts, calls, nextCalloutID,
                   ctxVars, destroyed, flowVars, pdpVars>>

(***************************************************************************)
(* Client filter (egress)                                                  *)
(***************************************************************************)
jwtVendingServiceCluster == <<"jwt-vending-service">>
jwtVendingServicePath == <<"/token/valid">>

\* A faulty variant of IsServiceB: compares the host and ignores the port.
IsServiceB_HostOnly(authority) == Len(authority) >= 1 /\ authority[1] = "service-b"

\* The designated downstream target (line 410 of the client filter).
IsServiceB(authority) ==
    ~(authority # <<"service-b", ":", "8083">> /\ authority # <<"service-b">>)

TokenCall ==
    [cluster |-> jwtVendingServiceCluster,
     method |-> <<"POST">>,
     path |-> jwtVendingServicePath,
     authority |-> <<"jwt-vending-service:8081">>,
     body |-> [service_id |-> <<"service-a">>],
     timeout |-> 5000]

\* OnHttpRequestHeaders of the client filter up to the dispatch: whether a
\* dispatch is attempted; without one the handler returns ActionContinue.
ClientAttempts(hs) ==
    LET authority == GetHttpRequestHeader(hs, ":authority")
    IN IF authority.err THEN FALSE
       ELSE IF ~IsServiceB(authority.val) THEN FALSE
       ELSE TRUE

\* A faulty variant of BearerHeader: the scheme is left out.
BearerHeader_NoScheme(token) == token

\* fmt.Sprintf("Bearer %s", tokenResp.Token)
BearerHeader(token) == <<"Bearer", " ">> \o token

\* A faulty variant of ClientCallOutcome: the empty-token check is left out.
ClientCallOutcome_NoEmptyCheck(resp, hs) ==
    IF resp.body = "error"
    THEN [headers |-> hs, resume |-> TRUE]
    ELSE IF resp.body = "unparseable"
    THEN [headers |-> hs, resume |-> TRUE]
    ELSE [headers |-> ReplaceHttpRequestHeader(hs, "Authorization",
                                               <<"Bearer", " ">> \o resp.token),
          resume |-> TRUE]

\* A faulty variant of ClientCallOutcome: every resumed request is marked with
\* a header saying whether a token was injected.
ClientCallOutcome_MarksRequest(resp, hs) ==
    IF resp.body \in {"error", "unparseable"} \/ resp.token = <<>>
    THEN [headers |-> AddHttpRequestHeader(hs, "X-Token-Injected", <<"false">>),
          resume |-> TRUE]
    ELSE [headers |-> AddHttpRequestHeader(
                          ReplaceHttpRequestHeader(hs, "Authorization",
                                                   BearerHeader(resp.token)),
                          "X-Token-Injected", <<"true">>),
          resume |-> TRUE]

\* A faulty variant of ClientCallOutcome: a call that failed stops the request.
ClientCallOutcome_FailClosed(resp, hs) ==
    IF resp.body \in {"error", "unparseable"} \/ resp.token = <<>>
    THEN [headers |-> hs, resume |-> FALSE]
    ELSE [headers |-> ReplaceHttpRequestHeader(hs, "Authorization",
                                               BearerHeader(resp.token)),
          resume |-> TRUE]

\* A faulty variant of ClientCallOutcome: the token is added as a further
\* Authorization header behind the caller's own.
ClientCallOutcome_AddsHeader(resp, hs) ==
    IF resp.body \in {"error", "unparseable"} \/ resp.token = <<>>
    THEN [headers |-> hs, resume |-> TRUE]
    ELSE [headers |-> AddHttpRequestHeader(hs, "Authorization", BearerHeader(resp.token)),
          resume |-> TRUE]

\* handleJWTResponse: the request headers after the call; every path ends in
\* ResumeHttpRequest.
ClientCallOutcome(resp, hs) ==
    IF resp.body = "error"                       \* GetHttpCallResponseBody failed
    THEN [headers |-> hs, resume |-> TRUE]
    ELSE IF resp.body = "unparseable"            \* json.Unmarshal failed
    THEN [headers |-> hs, resume |-> TRUE]
    ELSE IF resp.token = <<>>
    THEN [headers |-> hs, resume |-> TRUE]
    ELSE [headers |-> ReplaceHttpRequestHeader(hs, "Authorization",
                                               BearerHeader(resp.token)),
          resume |-> TRUE]

\* Inputs of the client filter.  TokenWrongKey is a token as /token/invalid
\* signs it: same header and payload, another signature.
TokenWrongKey == <<JwtHeader, ".", PayloadA, ".", "YmFk">>
AuthorityHeaders ==
    { <<>>,
      << <<":authority", <<"service-b", ":", "8083">>>> >>,
      << <<":authority", <<"service-b">>>> >>,
      << <<":authority", <<"service-b", ":", "8080">>>> >>,
      << <<":authority", <<"jwt-vending-service", ":", "8081">>>> >> }
OutboundAuthorization ==
    { <<>>,
      << <<"Authorization", Bearer \o TokenWrongKey>> >>,
      << <<"Authorization", Bearer \o TokenWrongKey>>,
         <<"X-Service-ID", <<"service-a">>>> >> }
ClientRequests ==
    { << <<":method", <<"GET">>>>,
         <<":path", <<"/process", "?", "asset", "=", "asset-x">>>> >> \o a \o x :
      a \in AuthorityHeaders, x \in OutboundAuthorization }

TokenResponses ==
    [cause : {"response", "failure"}, body : {"error", "unparseable"}, token : {<<>>}]
    \cup [cause : {"response"}, body : {"parsed"},
          token : {<<>>, TokenA, TokenWrongKey, TokenTwoSegments}]

\* pluginContext.NewHttpContext of the client filter: an outbound request
\* stream at the caller's sidecar gets a fresh httpContext.
ClientNewHttpContext(c) ==
    /\ filter[c] = "none"
    /\ \E hs \in ClientRequests :
          /\ origHeaders' = [origHeaders EXCEPT ![c] = hs]
          /\ reqHeaders' = [reqHeaders EXCEPT ![c] = hs]
    /\ filter' = [filter EXCEPT ![c] = "client"]
    /\ UNCHANGED <<handlerAction, sent, resumed, attempts, calls, pending, delivered,
                   nextCalloutID, ctxVars, destroyed, flowVars, pdpVars>>

\* httpContext.OnHttpRequestHeaders of the client filter.
ClientOnHttpRequestHeaders(c) ==
    /\ filter[c] = "client"
    /\ handlerAction[c] = "none"
    /\ \E dispatchOK \in BOOLEAN :
        LET attempted == ClientAttempts(reqHeaders[c])
            accepted == attempted /\ dispatchOK
        IN /\ handlerAction' = [handlerAction EXCEPT ![c] =
                                   IF accepted THEN "Pause" ELSE "Continue"]
           /\ attempts' = [attempts EXCEPT ![c] = @ + Dispatches(attempted, dispatchOK)]
           /\ calls' = [calls EXCEPT ![c] = IF accepted THEN Append(@, TokenCall) ELSE @]
           /\ nextCalloutID' = IF accepted THEN nextCalloutID + 1 ELSE nextCalloutID
           /\ pending' = [pending EXCEPT ![c] = accepted]
    /\ UNCHANGED <<filter, origHeaders, reqHeaders, sent, resumed, delivered, ctxVars,
                   destroyed, flowVars, pdpVars>>

\* One run of httpContext.handleJWTResponse on the result resp.
ClientCallback(c, resp) ==
    LET o == ClientCallOutcome(resp, reqHeaders[c])
    IN /\ delivered' = [delivered EXCEPT ![c] = Append(@, resp)]
       /\ reqHeaders' = [reqHeaders EXCEPT ![c] = o.headers]
       /\ resumed' = [resumed EXCEPT ![c] = @ + (IF o.resume THEN 1 ELSE 0)]

\* httpContext.handleJWTResponse: the callback registered with the dispatch.
handleJWTResponse(c) ==
    /\ filter[c] = "client"
    /\ pending[c]
    /\ \E resp \in TokenResponses : ClientCallback(c, resp)
    /\ pending' = [pending EXCEPT ![c] = FALSE]
    /\ UNCHANGED <<filter, origHeaders, handlerAction, sent, attempts, calls,
                   nextCalloutID, ctxVars, destroyed, flowVars, pdpVars>>

Next ==
    \E c \in Ctx :
        \/ ServerNewHttpContext(c)
        \/ ServerOnHttpRequestHeaders(c)
        \/ OnHttpCallResponse(c)
        \/ ClientNewHttpContext(c)
        \/ ClientOnHttpRequestHeaders(c)
        \/ handleJWTResponse(c)

Spec == Init /\ [][Next]_vars

\* The server filter on one inbound request, with further paths: "asset="
\* in a path that has no query string, the asset parameter after another
\* one, and the asset parameter twice.
FurtherPaths == { <<"/files/", "asset", "=", "v1">>,
                 <<"/process", "?", "x", "=", "1", "&", "asset", "=", "asset-y">>,
                 <<"/process", "?", "asset", "=", "asset-x", "&", "asset", "=", "asset-y">> }
InboundRequests ==
    ServerRequests
    \cup { << <<":method", <<"GET">>>>, <<":path", p>>,
               <<"Authorization", Bearer \o TokenA>> >> : p \in FurtherPaths }

\* pluginContext.NewHttpContext of the server filter, for the one request.
InboundStream ==
    /\ filter[1] = "none"
    /\ \E hs \in InboundRequests :
          /\ origHeaders' = [origHeaders EXCEPT ![1] = hs]
          /\ reqHeaders' = [reqHeaders EXCEPT ![1] = hs]
    /\ filter' = [filter EXCEPT ![1] = "server"]
    /\ UNCHANGED <<handlerAction, sent, resumed, attempts, calls, pending, delivered,
                   nextCalloutID, ctxVars, destroyed, flowVars, pdpVars>>

\* A call result with the status line of the answer: the decision service
\* or a proxy on the way answered with this HTTP status; a call that failed
\* has none.
CallStatuses == {200, 403, 500}
InboundResults ==
    UNION { { [cause |-> r.cause, body |-> r.body, decisions |-> r.decisions,
               status |-> st] :
              st \in IF r.cause = "failure" THEN {0} ELSE CallStatuses } :
            r \in PDPResponses }

\* httpContext.OnHttpCallResponse of the server filter for the one request:
\* the host delivers the result of the accepted dispatch, status included.
InboundCallResponse ==
    /\ filter[1] = "server"
    /\ pending[1]
    /\ \E resp \in InboundResults : ServerCallback(1, resp)
    /\ pending' = [pending EXCEPT ![1] = FALSE]
    /\ UNCHANGED <<filter, origHeaders, handlerAction, attempts, calls, nextCalloutID,
                   ctxVars, destroyed, flowVars, pdpVars>>

ServerFilterNext ==
    \/ InboundStream
    \/ ServerOnHttpRequestHeaders(1)
    \/ InboundCallResponse

ServerFilterSpec == Init /\ [][ServerFilterNext]_vars

(***************************************************************************)
(* Callbacks outside the host's contract.  The host promises one delivery  *)
(* per accepted dispatch and none after the stream is gone; the handlers   *)
(* themselves keep no record of either (httpContext has no state or        *)
(* teardown field, and neither filter defines OnHttpStreamDone).  Here the *)
(* handlers are run again, or run late, to see what they do on their own.  *)
(***************************************************************************)
\* Deliveries of one result to one context.
MaxDeliveries == 2

\* The host tears the stream down while its dispatch is outstanding (the
\* downstream peer resets, or the request times out).
StreamDone(c) ==
    /\ filter[c] # "none"
    /\ pending[c]
    /\ destroyed' = [destroyed EXCEPT ![c] = TRUE]
    /\ pending' = [pending EXCEPT ![c] = FALSE]
    /\ UNCHANGED <<filter, origHeaders, reqHeaders, handlerAction, sent, resumed,
                   attempts, calls, delivered, nextCalloutID, ctxVars, flowVars, pdpVars>>

\* OnHttpCallResponse is run again on the result it already handled.
ServerRedelivery(c) ==
    /\ filter[c] = "server"
    /\ ~pending[c] /\ ~destroyed[c]
    /\ delivered[c] # <<>>
    /\ Len(delivered[c]) < MaxDeliveries
    /\ ServerCallback(c, delivered[c][1])
    /\ UNCHANGED <<filter, origHeaders, handlerAction, attempts, calls, pending,
                   nextCalloutID, ctxVars, destroyed, flowVars, pdpVars>>

\* OnHttpCallResponse is run for a stream that was torn down.
ServerLateCallback(c) ==
    /\ filter[c] = "server"
    /\ destroyed[c]
    /\ delivered[c] = <<>>
    /\ \E resp \in PDPResponses : ServerCallback(c, resp)
    /\ UNCHANGED <<filter, origHeaders, handlerAction, attempts, calls, pending,
                   nextCalloutID, ctxVars, destroyed, flowVars, pdpVars>>

\* handleJWTResponse is run again on the result it already handled.
ClientRedelivery(c) ==
    /\ filter[c] = "client"
    /\ ~pending[c] /\ ~destroyed[c]
    /\ delivered[c] # <<>>
    /\ Len(delivered[c]) < MaxDeliveries
    /\ ClientCallback(c, delivered[c][1])
    /\ UNCHANGED <<filter, origHeaders, handlerAction, sent, attempts, calls, pending,
                   nextCalloutID, ctxVars, destroyed, flowVars, pdpVars>>

\* handleJWTResponse is run for a stream that was torn down.
ClientLateCallback(c) ==
    /\ filter[c] = "client"
    /\ destroyed[c]
    /\ delivered[c] = <<>>
    /\ \E resp \in TokenResponses : ClientCallback(c, resp)
    /\ UNCHANGED <<filter, origHeaders, handlerAction, sent, attempts, calls, pending,
                   nextCalloutID, ctxVars, destroyed, flowVars, pdpVars>>

RedeliveryNext ==
    \/ Next
    \/ \E c \in Ctx :
        \/ StreamDone(c)
        \/ ServerRedelivery(c)
        \/ ServerLateCallback(c)
        \/ ClientRedelivery(c)
        \/ ClientLateCallback(c)

RedeliverySpec == Init /\ [][RedeliveryNext]_vars

(***************************************************************************)
(* Several streams at once.  Envoy runs a worker's streams on one thread:  *)
(* a handler or a callback runs to its end before the next one starts, and *)
(* the handlers and callbacks of different streams come in any order.      *)
(* Each stream gets one request for each path through the header handlers, *)
(* each callback one result for each path through the callbacks.           *)
(***************************************************************************)
\* Number of streams in flight together.
NumStreams == 2
Streams == 1..NumStreams

InterleavedServerRequests ==
    { << <<":method", <<"GET">>>>, <<"Authorization", Bearer \o TokenA>> >>,
      << <<":method", <<"GET">>>>,
         <<":path", <<"/process", "?", "asset", "=", "asset-x">>>> >>,
      << <<":method", <<"GET">>>>,
         <<":path", <<"/process", "?", "asset", "=", "asset-x">>>>,
         <<"Authorization", <<"Basic", " ", "dXNlcjpwdw">>>> >>,
      << <<":method", <<"GET">>>>,
         <<":path", <<"/process", "?", "asset", "=", "asset-x">>>>,
         <<"Authorization", Bearer \o TokenTwoSegments>> >>,
      << <<":method", <<"GET">>>>,
         <<":path", <<"/process", "?", "asset", "=", "asset-x">>>>,
         <<"Authorization", Bearer \o TokenA>> >>,
      << <<":method", <<"GET">>>>,
         <<":path", <<"/process">>>>,
         <<"Authorization", Bearer \o TokenA>>,
         <<"X-Service-ID", <<"service-b">>>> >> }

InterleavedPDPResponses ==
    { [cause |-> "failure", body |-> "error", decisions |-> <<>>],
      [cause |-> "response", body |-> "unparseable", decisions |-> <<>>],
      [cause |-> "response", body |-> "parsed", decisions |-> <<>>] }
    \cup [cause : {"response"}, body : {"parsed"},
          decisions : {<<[decision |-> o,
                          reason |-> <<"Service service-a is not allowed to access asset-y">>]>> :
                       o \in Outcomes}]

InterleavedClientRequests ==
    { << <<":method", <<"GET">>>>,
         <<":path", <<"/process", "?", "asset", "=", "asset-x">>>>,
         <<":authority", a>>,
         <<"Authorization", Bearer \o TokenWrongKey>> >> :
      a \in {<<"service-b", ":", "8083">>, <<"jwt-vending-service", ":", "8081">>} }

InterleavedTokenResponses ==
    { [cause |-> "failure", body |-> "error", token |-> <<>>],
      [cause |-> "response", body |-> "unparseable", token |-> <<>>],
      [cause |-> "response", body |-> "parsed", token |-> <<>>],
      [cause |-> "response", body |-> "parsed", token |-> TokenA] }

\* pluginContext.NewHttpContext of the server filter.
InterleavedServerStream(c) ==
    /\ filter[c] = "none"
    /\ \E hs \in InterleavedServerRequests :
          /\ origHeaders' = [origHeaders EXCEPT ![c] = hs]
          /\ reqHeaders' = [reqHeaders EXCEPT ![c] = hs]
    /\ filter' = [filter EXCEPT ![c] = "server"]
    /\ UNCHANGED <<handlerAction, sent, resumed, attempts, calls, pending, delivered,
                   nextCalloutID, ctxVars, destroyed, flowVars, pdpVars>>

\* pluginContext.NewHttpContext of the client filter.
InterleavedClientStream(c) ==
    /\ filter[c] = "none"
    /\ \E hs \in InterleavedClientRequests :
          /\ origHeaders' = [origHeaders EXCEPT ![c] = hs]
          /\ reqHeaders' = [reqHeaders EXCEPT ![c] = hs]
    /\ filter' = [filter EXCEPT ![c] = "client"]
    /\ UNCHANGED <<handlerAction, sent, resumed, attempts, calls, pending, delivered,
                   nextCalloutID, ctxVars, destroyed, flowVars, pdpVars>>

\* httpContext.OnHttpCallResponse of the server filter, for stream c.
InterleavedPolicyResult(c) ==
    /\ filter[c] = "server"
    /\ pending[c]
    /\ \E resp \in InterleavedPDPResponses : ServerCallback(c, resp)
    /\ pending' = [pending EXCEPT ![c] = FALSE]
    /\ UNCHANGED <<filter, origHeaders, handlerAction, attempts, calls,
                   nextCalloutID, ctxVars, destroyed, flowVars, pdpVars>>

\* httpContext.handleJWTResponse of the client filter, for stream c.
InterleavedTokenResult(c) ==
    /\ filter[c] = "client"
    /\ pending[c]
    /\ \E resp \in InterleavedTokenResponses : ClientCallback(c, resp)
    /\ pending' = [pending EXCEPT ![c] = FALSE]
    /\ UNCHANGED <<filter, origHeaders, handlerAction, sent, attempts, calls,
                   nextCalloutID, ctxVars, destroyed, flowVars, pdpVars>>

InterleavedNext ==
    \E c \in Streams :
        \/ InterleavedServerStream(c)
        \/ ServerOnHttpRequestHeaders(c)
        \/ InterleavedPolicyResult(c)
        \/ InterleavedClientStream(c)
        \/ ClientOnHttpRequestHeaders(c)
        \/ InterleavedTokenResult(c)

InterleavedSpec == InitOver(Streams) /\ [][InterleavedNext]_vars

\* The host's part of the contract: the callback registered with an accepted
\* dispatch is run (with the response, or with the failure or the timeout of
\* the call); while callbacks are due, one of them is run.  A stream has at
\* most one callback, so this is enough for each of them to be run.
CallbackFairness ==
    WF_vars(\E c \in Streams : InterleavedPolicyResult(c) \/ InterleavedTokenResult(c))

FairInterleavedSpec == InterleavedSpec /\ CallbackFairness

(***************************************************************************)
(* The services: JWT vending, policy decision, Service B                   *)
(***************************************************************************)
\* jwt-vending generateToken: an RS256 token with sub = serviceID, signed
\* with the given key ("c2ln" under validPrivateKey, "YmFk" under
\* invalidPrivateKey).  Service A and the client filter ask for service-a.
generateToken(serviceID, privateKey) ==
    <<JwtHeader, ".",
      IF serviceID = <<"service-a">> THEN PayloadA ELSE "eyJzdWIiOiJvdGhlciJ9",
      ".",
      IF privateKey = "validPrivateKey" THEN "c2ln" ELSE "YmFk">>

\* jwt-vending handleValidToken / handleInvalidToken on a POST with this
\* service_id.
TokenEndpoint(path, service_id) ==
    IF service_id = <<>>
    THEN [status |-> 400, token |-> <<>>]
    ELSE [status |-> 200,
          token |-> generateToken(service_id,
                                  IF path = <<"/token/valid">> THEN "validPrivateKey"
                                  ELSE "invalidPrivateKey")]

\* A faulty variant of evaluateAccess: a rule that exists allows, whatever
\* its value.
evaluateAccess_AnyRuleAllows(principal, asset) ==
    IF principal \notin DOMAIN policyRules
    THEN [decision |-> "Deny",
          reason |-> <<"Principal ">> \o principal \o <<" not found in policy">>]
    ELSE IF asset \notin DOMAIN policyRules[principal]
    THEN [decision |-> "Deny",
          reason |-> <<"Asset ">> \o asset
                     \o <<" not found in policy for principal ">> \o principal]
    ELSE [decision |-> "Allow",
          reason |-> <<"Service ">> \o principal
                     \o <<" is allowed to access ">> \o asset]

\* A faulty variant of evaluateAccess: an asset the principal has no rule for
\* is allowed.
evaluateAccess_DefaultAllow(principal, asset) ==
    IF principal \notin DOMAIN policyRules
    THEN [decision |-> "Deny",
          reason |-> <<"Principal ">> \o principal \o <<" not found in policy">>]
    ELSE IF asset \notin DOMAIN policyRules[principal]
    THEN [decision |-> "Allow",
          reason |-> <<"Service ">> \o principal
                     \o <<" is allowed to access ">> \o asset]
    ELSE IF policyRules[principal][asset]
    THEN [decision |-> "Allow",
          reason |-> <<"Service ">> \o principal
                     \o <<" is allowed to access ">> \o asset]
    ELSE [decision |-> "Deny",
          reason |-> <<"Service ">> \o principal
                     \o <<" is not allowed to access ">> \o asset]

\* sgnl-pdp evaluateAccess.
evaluateAccess(principal, asset) ==
    IF principal \notin DOMAIN policyRules
    THEN [decision |-> "Deny",
          reason |-> <<"Principal ">> \o principal \o <<" not found in policy">>]
    ELSE IF asset \notin DOMAIN policyRules[principal]
    THEN [decision |-> "Deny",
          reason |-> <<"Asset ">> \o asset
                     \o <<" not found in policy for principal ">> \o principal]
    ELSE IF policyRules[principal][asset]
    THEN [decision |-> "Allow",
          reason |-> <<"Service ">> \o principal
                     \o <<" is allowed to access ">> \o asset]
    ELSE [decision |-> "Deny",
          reason |-> <<"Service ">> \o principal
                     \o <<" is not allowed to access ">> \o asset]

\* sgnl-pdp handleEvaluation on a decoded EvaluationRequest, as the server
\* filter's callback reads it: the 400 answers are plain text, which
\* json.Unmarshal rejects.
handleEvaluation(req) ==
    IF req.principal.id = <<>> \/ Len(req.queries) = 0
    THEN [cause |-> "response", body |-> "unparseable", decisions |-> <<>>]
    ELSE [cause |-> "response", body |-> "parsed",
          decisions |->
              [i \in 1..Len(req.queries) |->
                  IF req.queries[i].assetId = <<>>
                  THEN [decision |-> "Deny", reason |-> <<"assetId is required">>]
                  ELSE evaluateAccess(req.principal.id, req.queries[i].assetId)]]

(***************************************************************************)
(* The policy service on its own: net/http hands each request to the       *)
(* handler its path is registered for.  The handlers share nothing but the *)
(* package variable policyRules, which they only read, so serving requests *)
(* one after the other loses no behaviour.                                 *)
(***************************************************************************)
\* Queries in one evaluation request.
MaxQueries == 2
PdpPrincipals == {<<>>, <<"service-a">>, <<"service-b">>, <<"service-c">>}
PdpAssets == {<<>>, <<"asset-x">>, <<"asset-y">>, <<"asset-z">>}
QueryLists ==
    UNION {[1..n -> [assetId : PdpAssets, action : {<<"call">>}]] : n \in 0..MaxQueries}
EvaluationRequests == [principal : [id : PdpPrincipals], queries : QueryLists]
PdpRequests ==
    [endpoint : {"/access/v2/evaluations"}, method : {"POST"}, decodes : {TRUE},
     body : EvaluationRequests]
    \cup [endpoint : {"/access/v2/evaluations"}, method : {"POST", "GET"},
          decodes : {FALSE}, body : {NoBody}]
    \cup [endpoint : {"/policies"}, method : {"GET", "POST"}, decodes : {FALSE},
          body : {NoBody}]
    \cup [endpoint : {"/health"}, method : {"GET"}, decodes : {FALSE}, body : {NoBody}]

\* json.Encode of the table: its entries.
PoliciesJSON(table) ==
    UNION {{<<p, a, table[p][a]>> : a \in DOMAIN table[p]} : p \in DOMAIN table}

PdpAnswer(status, decisions, policies) ==
    [status |-> status, decisions |-> decisions, policies |-> policies]

\* http.ListenAndServe: the next request reaches the service.
PdpAccept ==
    /\ pdpRequest = NoRequest \/ pdpResponse # NoPdpResponse
    /\ pdpRequest' \in PdpRequests
    /\ pdpResponse' = NoPdpResponse
    /\ UNCHANGED <<hostVars, ctxVars, destroyed, flowVars, policyRules>>

\* sgnl-pdp handleEvaluation with its method check and its decoding.
PdpHandleEvaluation ==
    /\ pdpRequest.endpoint = "/access/v2/evaluations"
    /\ pdpResponse = NoPdpResponse
    /\ pdpResponse' =
           IF pdpRequest.method # "POST" THEN PdpAnswer(405, <<>>, {})
           ELSE IF ~pdpRequest.decodes THEN PdpAnswer(400, <<>>, {})
           ELSE LET answer == handleEvaluation(pdpRequest.body)
                IN IF answer.body = "parsed"
                   THEN PdpAnswer(200, answer.decisions, {})
                   ELSE PdpAnswer(400, <<>>, {})
    /\ UNCHANGED <<hostVars, ctxVars, destroyed, flowVars, policyRules, pdpRequest>>

\* sgnl-pdp handleHealth.
PdpHandleHealth ==
    /\ pdpRequest.endpoint = "/health"
    /\ pdpResponse = NoPdpResponse
    /\ pdpResponse' = PdpAnswer(200, <<>>, {})
    /\ UNCHANGED <<hostVars, ctxVars, destroyed, flowVars, policyRules, pdpRequest>>

\* sgnl-pdp handlePolicies: the table as it stands.
PdpHandlePolicies ==
    /\ pdpRequest.endpoint = "/policies"
    /\ pdpResponse = NoPdpResponse
    /\ pdpResponse' =
           IF pdpRequest.method # "GET" THEN PdpAnswer(405, <<>>, {})
           ELSE PdpAnswer(200, <<>>, PoliciesJSON(policyRules))
    /\ UNCHANGED <<hostVars, ctxVars, destroyed, flowVars, policyRules, pdpRequest>>

PdpNext ==
    \/ PdpAccept
    \/ PdpHandleEvaluation
    \/ PdpHandleHealth
    \/ PdpHandlePolicies

PdpSpec == Init /\ [][PdpNext]_vars

\* net/http Header.Get: the first value, "" when there is none.
HeaderGet(hs, name) == GetHttpRequestHeader(hs, name).val

\* A faulty variant of extractJWT: the scheme is compared in lower case.
extractJWT_LowerCase(hs) ==
    LET authHeader == HeaderGet(hs, "Authorization")
        parts == Split(authHeader, <<" ">>)
    IN IF authHeader = <<>> THEN [err |-> TRUE, token |-> <<>>]
       ELSE IF Len(parts) # 2 \/ parts[1] # <<"bearer">>
       THEN [err |-> TRUE, token |-> <<>>]
       ELSE [err |-> FALSE, token |-> parts[2]]

\* service-b extractJWT.
extractJWT(hs) ==
    LET authHeader == HeaderGet(hs, "Authorization")
        parts == Split(authHeader, <<" ">>)
    IN IF authHeader = <<>> THEN [err |-> TRUE, token |-> <<>>]
       ELSE IF Len(parts) # 2 \/ parts[1] # <<"Bearer">>
       THEN [err |-> TRUE, token |-> <<>>]
       ELSE [err |-> FALSE, token |-> parts[2]]

\* service-b parseJWT: jwt.Parser.ParseUnverified wants three segments whose
\* header and payload decode; the signature is not checked.
parseJWT(tokenString) ==
    LET parts == Split(tokenString, Dot)
    IN IF Len(parts) # 3 THEN [err |-> TRUE, sub |-> <<>>]
       ELSE IF parts[1] # <<JwtHeader>> THEN [err |-> TRUE, sub |-> <<>>]
       ELSE [err |-> ~DecodePayload(parts[2]).ok, sub |-> DecodePayload(parts[2]).sub]

\* A faulty variant of handleProcess: a request is processed only when the
\* sidecar marked it as allowed.
handleProcess_RequiresAllow(hs) ==
    IF HeaderGet(hs, ":method") # <<"GET">> THEN 405
    ELSE IF extractJWT(hs).err THEN 401
    ELSE IF parseJWT(extractJWT(hs).token).err THEN 401
    ELSE IF HeaderGet(hs, "X-PDP-Decision") # <<"Allow">> THEN 403
    ELSE 200

\* service-b handleProcess: the status it answers with.
handleProcess(hs) ==
    IF HeaderGet(hs, ":method") # <<"GET">> THEN 405
    ELSE IF extractJWT(hs).err THEN 401
    ELSE IF parseJWT(extractJWT(hs).token).err THEN 401
    ELSE IF HeaderGet(hs, "X-PDP-Decision") = <<"Deny">> THEN 403
    ELSE 200

(***************************************************************************)
(* Reading a synthesized response as a client does: a JSON reader for the  *)
(* error envelope {"error":S} or                                           *)
(* {"error":S,"pdp_response":{"decision":S,"reason":S}}.                   *)
(***************************************************************************)
Sym(s, i, x) == i >= 1 /\ i <= Len(s) /\ s[i] = x

JFail == [ok |-> FALSE, val |-> <<>>, next |-> 0]

\* The characters of a JSON string literal from position i (after the opening
\* quote) to its closing quote; a backslash escapes a quote or a backslash.
RECURSIVE JScan(_, _, _)
JScan(s, i, acc) ==
    IF i < 1 \/ i > Len(s) THEN JFail
    ELSE IF s[i] = "\"" THEN [ok |-> TRUE, val |-> acc, next |-> i + 1]
    ELSE IF s[i] = "\\"
    THEN IF i + 1 <= Len(s) /\ s[i + 1] \in {"\"", "\\"}
         THEN JScan(s, i + 2, Append(acc, s[i + 1]))
         ELSE JFail
    ELSE JScan(s, i + 1, Append(acc, s[i]))

JString(s, i) == IF Sym(s, i, "\"") THEN JScan(s, i + 1, <<>>) ELSE JFail

\* "key":"value" at position i.
JMember(s, i, key) ==
    LET k == JString(s, i)
        v == JString(s, k.next + 1)
    IN IF k.ok /\ k.val = key /\ Sym(s, k.next, ":") /\ v.ok THEN v ELSE JFail

NoEnvelope == [ok |-> FALSE, error |-> <<>>, pdp |-> FALSE,
               decision |-> <<>>, reason |-> <<>>]

Envelope(body) ==
    LET e == JMember(body, 2, <<"error">>)
        k == JString(body, e.next + 1)
        d == JMember(body, k.next + 2, <<"decision">>)
        r == JMember(body, d.next + 1, <<"reason">>)
    IN IF ~(Sym(body, 1, "{") /\ e.ok) THEN NoEnvelope
       ELSE IF Sym(body, e.next, "}") /\ e.next = Len(body)
       THEN [ok |-> TRUE, error |-> e.val, pdp |-> FALSE,
             decision |-> <<>>, reason |-> <<>>]
       ELSE IF /\ Sym(body, e.next, ",")
               /\ k.ok /\ k.val = <<"pdp_response">>
               /\ Sym(body, k.next, ":") /\ Sym(body, k.next + 1, "{")
               /\ d.ok /\ Sym(body, d.next, ",")
               /\ r.ok /\ Sym(body, r.next, "}") /\ Sym(body, r.next + 1, "}")
               /\ r.next + 1 = Len(body)
       THEN [ok |-> TRUE, error |-> e.val, pdp |-> TRUE,
             decision |-> d.val, reason |-> r.val]
       ELSE NoEnvelope

(***************************************************************************)
(* One call of Service A to Service B through both sidecars                *)
(***************************************************************************)
serviceID == <<"service-a">>
serviceBAuthority == <<"service-b", ":", "8083">>

\* encoding/json on a string value: a quote and a backslash get a backslash
\* in front.
RECURSIVE JEscape(_)
JEscape(s) ==
    IF s = <<>> THEN <<>>
    ELSE IF Head(s) \in {"\"", "\\"} THEN <<"\\", Head(s)>> \o JEscape(Tail(s))
    ELSE <<Head(s)>> \o JEscape(Tail(s))

\* A JSON string literal and a "key":"value" member as encoding/json writes
\* them.
JQuote(s) == <<"\"">> \o JEscape(s) \o <<"\"">>
JField(key, value) == JQuote(<<key>>) \o <<":">> \o JQuote(value)

\* A JSON value at position i: a string, an object, or a literal.
JLiterals == {"true", "false", "null"}
RECURSIVE JValue(_, _)
RECURSIVE JMembers(_, _)
JValue(s, i) ==
    IF Sym(s, i, "\"") THEN JString(s, i)
    ELSE IF Sym(s, i, "{")
    THEN IF Sym(s, i + 1, "}") THEN [ok |-> TRUE, val |-> <<>>, next |-> i + 2]
         ELSE JMembers(s, i + 1)
    ELSE IF i >= 1 /\ i <= Len(s) /\ s[i] \in JLiterals
    THEN [ok |-> TRUE, val |-> <<s[i]>>, next |-> i + 1]
    ELSE JFail
JMembers(s, i) ==
    LET k == JString(s, i)
        v == JValue(s, k.next + 1)
    IN IF ~(k.ok /\ Sym(s, k.next, ":") /\ v.ok) THEN JFail
       ELSE IF Sym(s, v.next, ",") THEN JMembers(s, v.next + 1)
       ELSE IF Sym(s, v.next, "}") THEN [ok |-> TRUE, val |-> <<>>, next |-> v.next + 1]
       ELSE JFail

\* json.Unmarshal into a map[string]interface{} succeeds on a JSON object
\* (the line feed json.Encoder writes after it is white space and left out).
IsJSONObject(body) ==
    /\ Sym(body, 1, "{")
    /\ JValue(body, 1).ok
    /\ JValue(body, 1).next = Len(body) + 1

\* net/url Values.Get on the request's query: the first value of the key.
URLQueryGet(path, key) ==
    LET i == Index(path, <<"?">>)
        ps == IF i = 0 THEN <<>> ELSE Split(SubSeq(path, i + 1, Len(path)), Amp)
        named == {j \in 1..Len(ps) : Len(ps[j]) >= 2 /\ ps[j][1] = key /\ ps[j][2] = "="}
    IN IF named = {} THEN <<>>
       ELSE LET j == CHOOSE j \in named : \A k \in named : j <= k
            IN SubSeq(ps[j], 3, Len(ps[j]))

\* service-b handleProcess: the body it writes.  http.Error writes plain
\* text; the other answers are ErrorResponse or ServiceBResponse encoded by
\* encoding/json.
handleProcessBody(hs) ==
    LET status == handleProcess(hs)
        authHeader == HeaderGet(hs, "Authorization")
        asset == URLQueryGet(HeaderGet(hs, ":path"), "asset")
        callerID == HeaderGet(hs, "X-Service-ID")
    IN IF status = 405 THEN <<"Method not allowed">>
       ELSE IF status = 401
       THEN <<"{">>
            \o JField("error",
                      IF authHeader = <<>>
                      THEN <<"Unauthorized: missing Authorization header">>
                      ELSE IF extractJWT(hs).err
                      THEN <<"Unauthorized: invalid Authorization header format">>
                      ELSE <<"Invalid JWT: failed to parse JWT">>)
            \o <<"}">>
       ELSE IF status = 403
       THEN <<"{">> \o JField("error", <<"Access denied by policy">>)
            \o <<",">> \o JQuote(<<"pdp_response">>) \o <<":", "{">>
            \o JField("decision", <<"Deny">>) \o <<",">>
            \o JField("reason", HeaderGet(hs, "X-PDP-Reason"))
            \o <<"}", "}">>
       ELSE <<"{">> \o JField("message", <<"Call received from ">> \o callerID)
            \o <<",">> \o JQuote(<<"jwt_claims">>) \o <<":", "{">>
            \o JField("sub", parseJWT(extractJWT(hs).token).sub) \o <<"}">>
            \o <<",">> \o JQuote(<<"authorized">>) \o <<":", "true">>
            \o <<",">> \o JField("asset", IF asset = <<>> THEN <<"unknown">> ELSE asset)
            \o (IF callerID = <<>> THEN <<>>
                ELSE <<",">> \o JField("caller_id", callerID))
            \o <<"}">>

\* The assets a caller of /call-service-b names; none stands for a request
\* without the field.
RequestedAssets == { <<>>, <<"asset-x">>, <<"asset-y">>, <<"asset-z">> }

\* The use_valid_token member of the posted body: true, false, or left out.
UseValidTokenMembers == {"true", "false", "omitted"}
CallBodies == [asset : RequestedAssets, use_valid_token : UseValidTokenMembers]

\* json.Decoder.Decode into a CallServiceBRequest: a member that is left
\* out leaves the field at its zero value, "" or false.
DecodeCallServiceBRequest(body) ==
    [asset |-> body.asset, use_valid_token |-> body.use_valid_token = "true"]

\* How the vending service's answer reaches getJWTToken: as the service
\* wrote it, not at all (http.Post fails), with another status than 200, or
\* with a body that does not decode.
IssuerOutcomes == {"answer", "transport", "status", "undecodable"}

\* A faulty variant of getJWTTokenResult: the status of the answer is not
\* looked at, so the body of an error answer is decoded as a token response.
getJWTTokenResult_IgnoresStatus(useValid, outcome) ==
    LET endpoint == IF ~useValid THEN <<"/token/invalid">> ELSE <<"/token/valid">>
        resp == TokenEndpoint(endpoint, serviceID)
    IN IF outcome = "transport" THEN [token |-> <<>>, err |-> "transport"]
       ELSE IF outcome = "status" THEN [token |-> <<>>, err |-> "nil"]
       ELSE IF outcome = "undecodable" THEN [token |-> <<>>, err |-> "decode"]
       ELSE [token |-> resp.token, err |-> "nil"]

\* Service A getJWTToken: the token and the error it returns.
getJWTTokenResult(useValid, outcome) ==
    LET endpoint == IF ~useValid THEN <<"/token/invalid">> ELSE <<"/token/valid">>
        resp == TokenEndpoint(endpoint, serviceID)
    IN IF outcome = "transport" THEN [token |-> <<>>, err |-> "transport"]
       ELSE IF outcome = "status" \/ resp.status # 200
       THEN [token |-> <<>>, err |-> "status"]
       ELSE IF outcome = "undecodable" THEN [token |-> <<>>, err |-> "decode"]
       ELSE [token |-> resp.token, err |-> "nil"]

\* A faulty variant of callServiceBResult: a response with another status
\* than 200 yields the error alone and no result.
callServiceBResult_NilOnError(status, body) ==
    IF status # 200 THEN [form |-> "none", status |-> 0, body |-> <<>>]
    ELSE IF IsJSONObject(body) THEN [form |-> "json", status |-> 0, body |-> body]
    ELSE [form |-> "raw", status |-> status, body |-> body]

\* Service A callServiceB, lines 111-134: the result it returns for a
\* response, the decoded object or, when the body is no JSON object, the
\* status and the raw body.
callServiceBResult(status, body) ==
    IF IsJSONObject(body) THEN [form |-> "json", status |-> 0, body |-> body]
    ELSE [form |-> "raw", status |-> status, body |-> body]

\* What the egress callback is handed: the vending service's answer to
\* TokenCall, an answer without a token, or a failed call.
IssuerResults ==
    { [cause |-> "response", body |-> "parsed",
       token |-> TokenEndpoint(TokenCall.path, TokenCall.body.service_id).token],
      [cause |-> "response", body |-> "parsed", token |-> <<>>],
      [cause |-> "response", body |-> "unparseable", token |-> <<>>],
      [cause |-> "failure", body |-> "error", token |-> <<>>] }

\* What the ingress callback is handed: the decision service's answer to
\* the dispatched call, or a failed call.
PolicyResults(call) ==
    { handleEvaluation(call.body),
      [cause |-> "failure", body |-> "error", decisions |-> <<>>] }

\* Service A handleCallServiceB, lines 138-158: a POST with a decoded body;
\* an empty asset becomes "asset-x".
handleCallServiceB ==
    /\ stage = "idle"
    /\ \E body \in CallBodies :
        LET req == DecodeCallServiceBRequest(body)
        IN /\ callBody' = body
           /\ callReq' = [asset |-> IF req.asset = <<>> THEN <<"asset-x">> ELSE req.asset,
                          use_valid_token |-> req.use_valid_token]
    /\ stage' = "token"
    /\ UNCHANGED <<hostVars, ctxVars, destroyed, pdpVars, tokenOfA, wire, ingressFields,
                   pdpAnswer, downstream, reply, tokenErr, issuerAnswer, downstreamBody,
                   responseFromB>>

\* Service A getJWTToken and lines 160-171 of handleCallServiceB: the token
\* of /token/valid or /token/invalid, or a 500 when the call fails.
getJWTToken ==
    /\ stage = "token"
    /\ \E outcome \in IssuerOutcomes :
        LET r == getJWTTokenResult(callReq.use_valid_token, outcome)
        IN /\ tokenOfA' = r.token
           /\ tokenErr' = r.err
           /\ IF r.err = "nil"
              THEN /\ stage' = "call"
                   /\ UNCHANGED reply
              ELSE /\ reply' = [status |-> 500, success |-> FALSE]
                   /\ stage' = "done"
    /\ UNCHANGED <<hostVars, ctxVars, destroyed, pdpVars, callReq, wire, ingressFields,
                   pdpAnswer, downstream, callBody, issuerAnswer, downstreamBody,
                   responseFromB>>

\* Service A callServiceB, lines 91-102: the request it sends.
callServiceB ==
    /\ stage = "call"
    /\ wire' = << <<":method", <<"GET">>>>,
                  <<":path", <<"/process", "?", "asset", "=">> \o callReq.asset>>,
                  <<":authority", serviceBAuthority>>,
                  <<"Authorization", <<"Bearer", " ">> \o tokenOfA>>,
                  <<"X-Service-ID", serviceID>> >>
    /\ stage' = "egress"
    /\ UNCHANGED <<hostVars, ctxVars, destroyed, pdpVars, callReq, tokenOfA, ingressFields,
                   pdpAnswer, downstream, reply, callBody, tokenErr, issuerAnswer,
                   downstreamBody, responseFromB>>

\* The client filter's OnHttpRequestHeaders on Service A's sidecar.
EgressOnHttpRequestHeaders ==
    /\ stage = "egress"
    /\ \E dispatchOK \in BOOLEAN :
          stage' = IF ClientAttempts(wire) /\ dispatchOK THEN "egressWait" ELSE "ingress"
    /\ UNCHANGED <<hostVars, ctxVars, destroyed, pdpVars, callReq, tokenOfA, wire, ingressFields,
                   pdpAnswer, downstream, reply, callBody, tokenErr, issuerAnswer,
                   downstreamBody, responseFromB>>

\* The client filter's handleJWTResponse; the request goes on to Service B's
\* sidecar.
EgressHandleJWTResponse ==
    /\ stage = "egressWait"
    /\ \E resp \in IssuerResults :
          /\ issuerAnswer' = resp
          /\ wire' = ClientCallOutcome(resp, wire).headers
    /\ stage' = "ingress"
    /\ UNCHANGED <<hostVars, ctxVars, destroyed, pdpVars, callReq, tokenOfA, ingressFields,
                   pdpAnswer, downstream, reply, callBody, tokenErr, downstreamBody,
                   responseFromB>>

\* The server filter's OnHttpRequestHeaders on Service B's sidecar.
IngressOnHttpRequestHeaders ==
    /\ stage = "ingress"
    /\ \E dispatchOK \in BOOLEAN :
        LET e == ServerHeaders(wire)
            local == IF e.attempted THEN PolicyFailure(wire).sent ELSE e.sent
        IN /\ ingressFields' = e.ctx
           /\ IF e.action = "Continue"
              THEN stage' = "serviceB" /\ UNCHANGED <<downstream, downstreamBody>>
              ELSE IF e.attempted /\ dispatchOK
              THEN stage' = "ingressWait" /\ UNCHANGED <<downstream, downstreamBody>>
              ELSE /\ downstream' = [from |-> "ingress", status |-> local[1].status]
                   /\ downstreamBody' = local[1].body
                   /\ stage' = "reply"
    /\ UNCHANGED <<hostVars, ctxVars, destroyed, pdpVars, callReq, tokenOfA, wire, pdpAnswer,
                   reply, callBody, tokenErr, issuerAnswer, responseFromB>>

\* The server filter's OnHttpCallResponse: the request is answered by the
\* sidecar, or goes on to Service B.
IngressOnHttpCallResponse ==
    /\ stage = "ingressWait"
    /\ \E resp \in PolicyResults(PDPCall(ingressFields.principalID,
                                          ingressFields.assetID)) :
        LET o == ServerCallOutcome(resp, ingressFields.principalID, wire)
        IN /\ pdpAnswer' = resp
           /\ wire' = o.headers
           /\ IF o.resume
              THEN stage' = "serviceB" /\ UNCHANGED <<downstream, downstreamBody>>
              ELSE /\ downstream' = [from |-> "ingress", status |-> o.sent[1].status]
                   /\ downstreamBody' = o.sent[1].body
                   /\ stage' = "reply"
    /\ UNCHANGED <<hostVars, ctxVars, destroyed, pdpVars, callReq, tokenOfA, ingressFields, reply,
                   callBody, tokenErr, issuerAnswer, responseFromB>>

\* Service B's application answers the forwarded request.
ServiceBProcess ==
    /\ stage = "serviceB"
    /\ downstream' = [from |-> "service-b", status |-> handleProcess(wire)]
    /\ downstreamBody' = handleProcessBody(wire)
    /\ stage' = "reply"
    /\ UNCHANGED <<hostVars, ctxVars, destroyed, pdpVars, callReq, tokenOfA, wire, ingressFields,
                   pdpAnswer, reply, callBody, tokenErr, issuerAnswer, responseFromB>>

\* Service A callServiceB, lines 128-134, and handleCallServiceB, lines
\* 173-194: any status but 200 is an error, reported with success false in
\* a 200 answer; the result goes into response_from_b either way.
ServiceAReply ==
    /\ stage = "reply"
    /\ reply' = [status |-> 200, success |-> downstream.status = 200]
    /\ responseFromB' = callServiceBResult(downstream.status, downstreamBody)
    /\ stage' = "done"
    /\ UNCHANGED <<hostVars, ctxVars, destroyed, pdpVars, callReq, tokenOfA, wire, ingressFields,
                   pdpAnswer, downstream, callBody, tokenErr, issuerAnswer, downstreamBody>>

FlowNext ==
    \/ handleCallServiceB
    \/ getJWTToken
    \/ callServiceB
    \/ EgressOnHttpRequestHeaders
    \/ EgressHandleJWTResponse
    \/ IngressOnHttpRequestHeaders
    \/ IngressOnHttpCallResponse
    \/ ServiceBProcess
    \/ ServiceAReply

FlowSpec == Init /\ [][FlowNext]_vars

(***************************************************************************)
(* Service B on its own: requests that reach handleProcess directly        *)
(***************************************************************************)
ProcessMethods == { <<"GET">>, <<"POST">> }
ProcessPaths == { <<"/process", "?", "asset", "=", "asset-x">>, <<"/process">> }
ProcessAuthorization ==
    { <<>>,
      << <<"Authorization", Bearer \o TokenA>> >>,
      << <<"Authorization", Bearer \o TokenWrongKey>>,
         <<"X-Service-ID", <<"service-a">>>> >>,
      << <<"Authorization", Bearer \o TokenTwoSegments>> >>,
      << <<"Authorization", Bearer \o TokenUndecodable>> >>,
      << <<"Authorization", <<"Basic", " ", "dXNlcjpwdw">>>> >>,
      << <<"Authorization", <<"bearer", " ">> \o TokenA>> >> }
ProcessDecisions ==
    { <<>>,
      << <<"X-PDP-Decision", <<"Deny">>>> >>,
      << <<"X-PDP-Decision", <<"Deny">>>>,
         <<"X-PDP-Reason", <<"not ", "\"", "allowed", "\"">>>> >>,
      << <<"X-PDP-Decision", <<"Allow">>>>, <<"X-PDP-Reason", <<"ok">>>> >>,
      << <<"X-PDP-Decision", <<"deny">>>> >>,
      << <<"X-PDP-Decision", <<"Deny">>>>, <<"X-PDP-Decision", <<"Allow">>>> >>,
      << <<"X-PDP-Decision", <<"Allow">>>>, <<"X-PDP-Decision", <<"Deny">>>> >> }
ProcessRequests ==
    { << <<":method", m>>, <<":path", p>> >> \o a \o d :
      m \in ProcessMethods, p \in ProcessPaths,
      a \in ProcessAuthorization, d \in ProcessDecisions }

\* A request arrives at Service B's /process.
ProcessRequest ==
    /\ stage = "idle"
    /\ \E hs \in ProcessRequests : wire' = hs
    /\ stage' = "serviceB"
    /\ UNCHANGED <<hostVars, ctxVars, destroyed, pdpVars, callReq, tokenOfA, ingressFields,
                   pdpAnswer, downstream, reply, callBody, tokenErr, issuerAnswer,
                   downstreamBody, responseFromB>>

ServiceBNext ==
    \/ ProcessRequest
    \/ ServiceBProcess

ServiceBSpec == Init /\ [][ServiceBNext]_vars

(***************************************************************************)
(* Claims                                                                  *)
(***************************************************************************)
IsServer(c) == filter[c] = "server"
IsClient(c) == filter[c] = "client"
HandlerRan(c) == handlerAction[c] # "none"
CallbackRan(c) == delivered[c] # <<>>
Result(c) == delivered[c][1]
DispatchFailed(c) == HandlerRan(c) /\ attempts[c] > Len(calls[c])
Unmutated(c) == reqHeaders[c] = origHeaders[c]

FirstDecisionIs(c, outcome) ==
    /\ CallbackRan(c)
    /\ Result(c).body = "parsed"
    /\ Result(c).decisions # <<>>
    /\ Result(c).decisions[1].decision = outcome

\* The stream got exactly one synthesized response, of this status.
TerminatedWith(c, status) ==
    /\ Len(sent[c]) = 1
    /\ sent[c][1].status = status
    /\ resumed[c] = 0

\* C1: when the first decision is Deny, the request ends with one 403 whose
\* body reads as an envelope with pdp_response.reason equal to the service's
\* reason string, and the request is not resumed.
C1_DenyReasonVerbatim ==
    \A c \in Ctx :
        (IsServer(c) /\ FirstDecisionIs(c, "Deny")) =>
            /\ TerminatedWith(c, 403)
            /\ Envelope(sent[c][1].body).ok
            /\ Envelope(sent[c][1].body).pdp
            /\ Envelope(sent[c][1].body).reason = Result(c).decisions[1].reason

\* C2: when the first decision is Allow, the request is resumed, no response
\* is synthesized, and the request carries X-PDP-Decision: Allow.
C2_AllowResumesWithDecisionHeader ==
    \A c \in Ctx :
        (IsServer(c) /\ FirstDecisionIs(c, "Allow")) =>
            /\ resumed[c] = 1
            /\ sent[c] = <<>>
            /\ \E i \in 1..Len(reqHeaders[c]) :
                   reqHeaders[c][i] = <<"X-PDP-Decision", <<"Allow">>>>

C2_Witness ==
    \E c \in Ctx :
        /\ IsServer(c) /\ FirstDecisionIs(c, "Allow")
        /\ resumed[c] = 1
        /\ HasHeader(origHeaders[c], "X-PDP-Decision")

\* A policy evaluation that failed: the dispatch was refused, or the
\* callback got no readable body, no parseable body or no decision.
PolicyEvaluationFailed(c) ==
    \/ DispatchFailed(c)
    \/ /\ CallbackRan(c)
       /\ \/ Result(c).body \in {"error", "unparseable"}
          \/ Result(c).decisions = <<>>

\* C3: a failed policy evaluation ends the request with one 403 whose
\* envelope carries "Policy evaluation failed"; the request is not resumed
\* and its headers are untouched.
C3_FailClosed ==
    \A c \in Ctx :
        (IsServer(c) /\ PolicyEvaluationFailed(c)) =>
            /\ TerminatedWith(c, 403)
            /\ Envelope(sent[c][1].body).ok
            /\ Envelope(sent[c][1].body).error = <<"Policy evaluation failed">>
            /\ Unmutated(c)
            /\ ~pending[c]

C3_Witness ==
    \E c \in Ctx :
        /\ IsServer(c) /\ CallbackRan(c)
        /\ Result(c).cause = "failure"
        /\ TerminatedWith(c, 403)

\* The Authorization header as the caller sent it.
Credential(c) == GetHttpRequestHeader(origHeaders[c], "Authorization")
CredentialMissing(c) == Credential(c).err \/ Credential(c).val = <<>>
BearerToken(c) == TrimPrefix(Credential(c).val, Bearer)

\* C4: a request without an Authorization header, or with an empty one, ends
\* with one 401 and no dispatch to the policy decision service.
C4_MissingCredentialIs401 ==
    \A c \in Ctx :
        (IsServer(c) /\ HandlerRan(c) /\ CredentialMissing(c)) =>
            /\ TerminatedWith(c, 401)
            /\ attempts[c] = 0

\* C5: a request whose Authorization header is present but does not start
\* with "Bearer " ends with one 401 and no dispatch.
C5_MalformedCredentialIs401 ==
    \A c \in Ctx :
        (/\ IsServer(c) /\ HandlerRan(c)
         /\ ~CredentialMissing(c)
         /\ ~HasPrefix(Credential(c).val, Bearer)) =>
            /\ TerminatedWith(c, 401)
            /\ attempts[c] = 0

TokenClaims(c) == DecodePayload(PayloadSegment(BearerToken(c)))

\* The request carries the :path and :method pseudo-headers.
HasPseudoHeaders(c) ==
    HasHeader(origHeaders[c], ":path") /\ HasHeader(origHeaders[c], ":method")

\* C6: a request with a bearer token whose payload segment does not decode
\* ends with one 401 and no dispatch.  Stated for requests that carry :path
\* and :method, which is where the token is looked at.
C6_UndecodablePayloadIs401 ==
    \A c \in Ctx :
        (/\ IsServer(c) /\ HandlerRan(c)
         /\ HasPseudoHeaders(c)
         /\ ~CredentialMissing(c)
         /\ HasPrefix(Credential(c).val, Bearer)
         /\ ~TokenClaims(c).ok) =>
            /\ TerminatedWith(c, 401)
            /\ attempts[c] = 0

\* C7: the principal of the dispatched AccessQuery, and of the X-Principal-ID
\* header on Allow, is the sub claim of the request's bearer token.  Stated
\* for the tokens whose payload decodes.
C7_PrincipalIsTokenSub ==
    \A c \in Ctx :
        (IsServer(c) /\ calls[c] # <<>> /\ TokenClaims(c).ok) =>
            /\ calls[c][1].body.principal.id = TokenClaims(c).sub
            /\ resumed[c] > 0 =>
                   GetHttpRequestHeader(reqHeaders[c], "X-Principal-ID").val
                       = TokenClaims(c).sub

\* The values of every entry of a header map with this name.
Values(hs, name) ==
    LET es == SelectSeq(hs, LAMBDA e : e[1] = name)
    IN [i \in 1..Len(es) |-> es[i][2]]

TokenObtained(c) ==
    /\ CallbackRan(c)
    /\ Result(c).body = "parsed"
    /\ Result(c).token # <<>>

Designated(c) ==
    LET authority == GetHttpRequestHeader(origHeaders[c], ":authority")
    IN /\ ~authority.err
       /\ authority.val \in {<<"service-b", ":", "8083">>, <<"service-b">>}

\* C9: a request to another destination is continued at once, with no
\* dispatch attempted and no header changed.
C9_PassThrough ==
    \A c \in Ctx :
        (IsClient(c) /\ HandlerRan(c) /\ ~Designated(c)) =>
            /\ handlerAction[c] = "Continue"
            /\ attempts[c] = 0
            /\ calls[c] = <<>>
            /\ Unmutated(c)
            /\ sent[c] = <<>>

C9_Witness ==
    \E c \in Ctx :
        /\ IsClient(c) /\ HandlerRan(c)
        /\ GetHttpRequestHeader(origHeaders[c], ":authority").val
               = <<"service-b", ":", "8080">>
        /\ handlerAction[c] = "Continue"

NoTokenObtained(c) ==
    /\ CallbackRan(c)
    /\ \/ Result(c).body \in {"error", "unparseable"}
       \/ Result(c).token = <<>>

\* C10: when the issuer's response cannot be read or parsed, or its token is
\* empty, the suspended request is resumed with its headers as they were.
C10_FailOpen ==
    \A c \in Ctx :
        (IsClient(c) /\ NoTokenObtained(c)) =>
            /\ resumed[c] = 1
            /\ Unmutated(c)
            /\ sent[c] = <<>>

C10_Witness ==
    \E c \in Ctx :
        /\ IsClient(c) /\ CallbackRan(c)
        /\ Result(c).body = "parsed" /\ Result(c).token = <<>>
        /\ HasHeader(origHeaders[c], "Authorization")
        /\ resumed[c] = 1

(***************************************************************************)
(* Claims C11 - C20                                                        *)
(***************************************************************************)
\* C11: delivering a result again to a context whose callback already ran
\* changes nothing: no further response is sent, the request is not resumed
\* again and no request header changes.
C11_RedeliveryIsNoOp ==
    [][\A c \in Ctx :
          (delivered[c] # <<>> /\ delivered'[c] # delivered[c]) =>
              /\ sent'[c] = sent[c]
              /\ resumed'[c] = resumed[c]
              /\ reqHeaders'[c] = reqHeaders[c]]_vars

\* C12: for a stream torn down while its dispatch was outstanding, the
\* handlers send no response, resume nothing and change no header, whether
\* or not a result is still handed to the callback.
C12_LateCallbackIsNoOp ==
    \A c \in Ctx :
        destroyed[c] =>
            /\ sent[c] = <<>>
            /\ resumed[c] = 0
            /\ Unmutated(c)

\* Dispatches accepted for the context whose result is still to come.
Outstanding(c) == Len(calls[c]) - Len(delivered[c])

\* C13: a context never has more than one callout outstanding; a request
\* sees at most one DispatchHttpCall, refused or not, and it is made by the
\* header handler: once the callback has run there is still exactly one.
C13_SingleDispatch ==
    \A c \in Ctx :
        /\ Outstanding(c) \in {0, 1}
        /\ pending[c] <=> Outstanding(c) = 1
        /\ attempts[c] <= 1
        /\ Len(calls[c]) <= attempts[c]
        /\ attempts[c] > 0 => HandlerRan(c)
        /\ CallbackRan(c) => (attempts[c] = 1 /\ Len(calls[c]) = 1)

C13_Witness ==
    \E c \in Ctx :
        /\ HandlerRan(c)
        /\ attempts[c] = 1
        /\ calls[c] = <<>>
        /\ ~pending[c]

\* The request goes on to its destination / was answered by the filter.
IsResumed(c) == handlerAction[c] = "Continue" \/ resumed[c] > 0
IsTerminated(c) == sent[c] # <<>>

\* C14: a context leaves AwaitingCallout only by a step of its callback, and
\* then is either resumed or terminated; a resumed or terminated context
\* stays as it is, and no context is ever both.
C14_StateMachine ==
    [][\A c \in Ctx :
          /\ (pending[c] /\ ~pending'[c]) =>
                 /\ Len(delivered'[c]) = Len(delivered[c]) + 1
                 /\ IsResumed(c)' \/ IsTerminated(c)'
          /\ ~(IsResumed(c)' /\ IsTerminated(c)')
          /\ (IsResumed(c) \/ IsTerminated(c)) =>
                 /\ ~pending'[c]
                 /\ sent'[c] = sent[c]
                 /\ resumed'[c] = resumed[c]
                 /\ handlerAction'[c] = handlerAction[c]
                 /\ reqHeaders'[c] = reqHeaders[c]]_vars

C14_Witness ==
    \E c \in Ctx :
        /\ IsServer(c) /\ CallbackRan(c) /\ ~pending[c]
        /\ IsTerminated(c) /\ ~IsResumed(c)
        /\ FirstDecisionIs(c, "Deny")

\* C15: a call made with use_valid_token = false is rejected: Service A
\* reports success = false.
C15_InvalidTokenRejected ==
    (stage = "done" /\ ~callReq.use_valid_token) => ~reply.success

\* The decision service answered the call of the server filter.
PolicyServiceAnswered == stage = "done" /\ pdpAnswer.cause = "response"

\* C16: for asset-y and a valid token, the decision service answers Deny
\* with its "not allowed" reason, the sidecar of Service B answers 403, the
\* request does not reach Service B, and Service A reports success = false.
C16_DenialFlow ==
    (/\ PolicyServiceAnswered
     /\ callReq.asset = <<"asset-y">>
     /\ callReq.use_valid_token) =>
        /\ ingressFields.principalID = <<"service-a">>
        /\ pdpAnswer.body = "parsed"
        /\ pdpAnswer.decisions =
               << [decision |-> "Deny",
                   reason |-> <<"Service ", "service-a",
                                " is not allowed to access ", "asset-y">>] >>
        /\ downstream = [from |-> "ingress", status |-> 403]
        /\ ~reply.success

C16_Witness ==
    /\ PolicyServiceAnswered
    /\ callReq.asset = <<"asset-y">>
    /\ callReq.use_valid_token
    /\ downstream.status = 403
    /\ reply.status = 200

\* C17: for asset-x and a valid token, the decision service answers Allow,
\* the request is resumed and reaches Service B, which answers 200, and
\* Service A reports success = true.
C17_PositiveFlow ==
    (/\ PolicyServiceAnswered
     /\ callReq.asset = <<"asset-x">>
     /\ callReq.use_valid_token) =>
        /\ ingressFields.principalID = <<"service-a">>
        /\ pdpAnswer.body = "parsed"
        /\ Len(pdpAnswer.decisions) = 1
        /\ pdpAnswer.decisions[1].decision = "Allow"
        /\ downstream = [from |-> "service-b", status |-> 200]
        /\ reply = [status |-> 200, success |-> TRUE]

C17_Witness ==
    /\ PolicyServiceAnswered
    /\ callReq.asset = <<"asset-x">>
    /\ callReq.use_valid_token
    /\ downstream.from = "service-b"
    /\ reply.success

\* The one response of a failed policy evaluation.
FailureResponse ==
    [status |-> 403,
     headers |-> << <<"content-type", <<"application/json">>>> >>,
     body |-> <<"{", "\"", "error", "\"", ":", "\"", "Policy evaluation failed", "\"",
                ",", "\"", "pdp_response", "\"", ":", "{",
                "\"", "decision", "\"", ":", "\"", "Deny", "\"", ",",
                "\"", "reason", "\"", ":", "\"", "\"", "}", "}">>]

\* C18: every failed policy evaluation, whatever failed, is answered with
\* the same response: same status, same headers, same body.
C18_FailuresIndistinguishable ==
    \A c1, c2 \in Ctx :
        (/\ IsServer(c1) /\ PolicyEvaluationFailed(c1)
         /\ IsServer(c2) /\ PolicyEvaluationFailed(c2)) =>
            /\ sent[c1] = sent[c2]
            /\ sent[c1] = <<FailureResponse>>

C18_Witness ==
    \E c \in Ctx :
        /\ IsServer(c) /\ CallbackRan(c)
        /\ Result(c).body = "parsed"
        /\ Result(c).decisions = <<>>
        /\ sent[c] = <<FailureResponse>>

\* A response cut down to its first decision.
FirstOnly(resp) == [resp EXCEPT !.decisions = <<resp.decisions[1]>>]

\* C19: the outcome of a response with decisions is the outcome of the
\* response that holds its first decision alone: same local response, same
\* request headers, same resumption.
C19_FirstDecisionOnly ==
    \A c \in Ctx :
        (/\ IsServer(c) /\ CallbackRan(c)
         /\ Result(c).body = "parsed"
         /\ Result(c).decisions # <<>>) =>
            LET o == ServerCallOutcome(FirstOnly(Result(c)), principalID[c],
                                       origHeaders[c])
            IN /\ sent[c] = o.sent
               /\ reqHeaders[c] = o.headers
               /\ resumed[c] = IF o.resume THEN 1 ELSE 0

C19_Witness ==
    \E c \in Ctx :
        /\ IsServer(c) /\ CallbackRan(c)
        /\ Result(c).body = "parsed"
        /\ Len(Result(c).decisions) = 2
        /\ Result(c).decisions[1].decision = "Deny"
        /\ Result(c).decisions[2].decision = "Allow"
        /\ TerminatedWith(c, 403)

\* A query string read as a query-string parser reads it: the parameters
\* are what "&" separates after the first "?", a parameter's name is what
\* stands before its "=".
QueryString(path) ==
    LET i == Index(path, <<"?">>)
    IN IF i = 0 THEN <<>> ELSE SubSeq(path, i + 1, Len(path))
QueryValue(path, name) ==
    LET ps == Split(QueryString(path), Amp)
        named == {i \in 1..Len(ps) :
                     \/ ps[i] = <<name>>
                     \/ Len(ps[i]) >= 2 /\ ps[i][1] = name /\ ps[i][2] = "="}
    IN IF named = {} THEN <<>>
       ELSE LET i == CHOOSE i \in named : \A j \in named : i <= j
            IN SubSeq(ps[i], 3, Len(ps[i]))

\* The request gets as far as the asset id: it carries :path and :method and
\* a bearer token of three segments whose payload decodes.
WellFormedCredential(c) ==
    /\ HasPseudoHeaders(c)
    /\ ~CredentialMissing(c)
    /\ HasPrefix(Credential(c).val, Bearer)
    /\ Len(Split(BearerToken(c), Dot)) = 3
    /\ TokenClaims(c).ok

\* C20: a request whose query string has no asset parameter, or an empty
\* one, is dispatched with the asset id "default-asset"; it is not answered
\* by the header handler unless the dispatch itself is refused.
C20_DefaultAsset ==
    \A c \in Ctx :
        (/\ IsServer(c) /\ HandlerRan(c)
         /\ WellFormedCredential(c)
         /\ QueryValue(GetHttpRequestHeader(origHeaders[c], ":path").val, "asset")
                = <<>>) =>
            /\ attempts[c] = 1
            /\ assetID[c] = <<"default-asset">>
            /\ calls[c] # <<>> =>
                   calls[c][1].body.queries[1].assetId = <<"default-asset">>
            /\ (sent[c] # <<>> /\ ~CallbackRan(c)) => DispatchFailed(c)

(***************************************************************************)
(* Claims C21 - C30                                                        *)
(***************************************************************************)
\* C21: every evaluation request the server filter dispatches has exactly
\* one query, with action "call", a non-empty assetId and a non-empty
\* principal id; the policy service's validation accepts it (no 400, and no
\* "assetId is required" decision).
C21_DispatchedRequestIsValid ==
    \A c \in Ctx :
        (IsServer(c) /\ calls[c] # <<>>) =>
            LET req == calls[c][1].body
                answer == handleEvaluation(req)
            IN /\ Len(req.queries) = 1
               /\ req.queries[1].action = <<"call">>
               /\ req.queries[1].assetId # <<>>
               /\ req.principal.id # <<>>
               /\ answer.body = "parsed"
               /\ Len(answer.decisions) = 1
               /\ answer.decisions[1].reason # <<"assetId is required">>

C21_Witness ==
    \E c \in Ctx :
        /\ IsServer(c) /\ calls[c] # <<>>
        /\ extractAssetFromPath(requestPath[c]) = <<>>
        /\ calls[c][1].body.queries[1].assetId = <<"default-asset">>
        /\ handleEvaluation(calls[c][1].body).body = "parsed"

\* The headers of a request other than Authorization, in order.
OtherHeaders(hs) == SelectSeq(hs, LAMBDA h : h[1] # "Authorization")

\* C22: the client filter changes no request header but Authorization, and
\* that one only when the callback got a non-empty token; on every other
\* path (pass-through, refused dispatch, unreadable, unparseable or empty
\* token) the headers are as the caller sent them.
C22_OnlyAuthorizationOnSuccess ==
    \A c \in Ctx :
        IsClient(c) =>
            /\ OtherHeaders(reqHeaders[c]) = OtherHeaders(origHeaders[c])
            /\ ~TokenObtained(c) => Unmutated(c)
            /\ TokenObtained(c) =>
                   Values(reqHeaders[c], "Authorization")
                       = << <<"Bearer", " ">> \o Result(c).token >>

C22_Witness ==
    \E c \in Ctx :
        /\ IsClient(c) /\ TokenObtained(c)
        /\ HasHeader(origHeaders[c], "X-Service-ID")
        /\ HasHeader(origHeaders[c], "Authorization")
        /\ ~Unmutated(c)
        /\ OtherHeaders(reqHeaders[c]) = OtherHeaders(origHeaders[c])

\* C24: the client filter never answers a request itself; when the dispatch
\* is refused the handler continues the request, and when the call fails or
\* times out the callback resumes it, in both cases with the headers the
\* caller sent (no token is put in).
C24_EgressNeverTerminates ==
    \A c \in Ctx :
        IsClient(c) =>
            /\ sent[c] = <<>>
            /\ DispatchFailed(c) =>
                   /\ handlerAction[c] = "Continue"
                   /\ ~pending[c] /\ ~CallbackRan(c)
                   /\ Unmutated(c)
            /\ (CallbackRan(c) /\ Result(c).cause = "failure") =>
                   /\ resumed[c] = 1
                   /\ Unmutated(c)
            /\ CallbackRan(c) => resumed[c] = 1

C24_Witness ==
    \E c \in Ctx :
        /\ IsClient(c) /\ CallbackRan(c)
        /\ Result(c).cause = "failure"
        /\ resumed[c] = 1 /\ sent[c] = <<>>
        /\ HasHeader(reqHeaders[c], "Authorization")

\* The policy table allows: it has an entry for the principal, and that
\* entry maps the asset to true.
TableAllows(principal, asset) ==
    /\ principal \in DOMAIN policyRules
    /\ asset \in DOMAIN policyRules[principal]
    /\ policyRules[principal][asset] = TRUE

\* C23: evaluateAccess returns Allow exactly when the table has an entry for
\* the principal that maps the asset to true, and otherwise Deny with a
\* reason; the service answers each query of a request so; no request
\* changes the table.
C23_DefaultDeny ==
    /\ policyRules = policyRulesInit
    /\ \A p \in PdpPrincipals, a \in PdpAssets :
           LET d == evaluateAccess(p, a)
           IN /\ d.decision \in {"Allow", "Deny"}
              /\ d.decision = "Allow" <=> TableAllows(p, a)
              /\ d.reason # <<>>
    /\ (pdpRequest.endpoint = "/access/v2/evaluations" /\ pdpResponse.status = 200) =>
           LET req == pdpRequest.body
           IN /\ Len(pdpResponse.decisions) = Len(req.queries)
              /\ \A i \in 1..Len(req.queries) :
                     LET d == pdpResponse.decisions[i]
                     IN /\ d.decision \in {"Allow", "Deny"}
                        /\ d.decision = "Allow"
                               <=> TableAllows(req.principal.id, req.queries[i].assetId)
                        /\ d.reason # <<>>

C23_Witness ==
    /\ pdpRequest.endpoint = "/access/v2/evaluations"
    /\ pdpResponse.status = 200
    /\ pdpRequest.body.principal.id = <<"service-a">>
    /\ Len(pdpResponse.decisions) = 2
    /\ pdpRequest.body.queries[2].assetId = <<"asset-z">>
    /\ pdpResponse.decisions[1].decision = "Allow"
    /\ pdpResponse.decisions[2].decision = "Deny"

\* C25: when the host runs the callback of every accepted dispatch, a
\* request whose header handler ran is in the end resumed (or continued) or
\* terminated: none stays suspended for ever.
C25_NoRequestStaysSuspended ==
    \A c \in Streams :
        HandlerRan(c) ~> (IsResumed(c) \/ IsTerminated(c))

C25_Witness ==
    \E c \in Streams :
        /\ IsServer(c) /\ handlerAction[c] = "Pause"
        /\ CallbackRan(c) /\ Result(c).cause = "failure"
        /\ IsTerminated(c) /\ ~IsResumed(c)

\* The header handler returned Pause and no local response has been sent.
PausedWithoutResponse(c) == handlerAction[c] = "Pause" /\ sent[c] = <<>>

\* C26: when the header handler returns, the request is suspended (Pause,
\* no local response) exactly when a dispatch was accepted; without an
\* accepted dispatch the handler continued the request or sent a local
\* response.  Later the request is suspended exactly while the callback of
\* the dispatch is outstanding.
C26_SuspendedIffDispatched ==
    \A c \in Ctx :
        /\ (HandlerRan(c) /\ ~CallbackRan(c)) =>
               /\ PausedWithoutResponse(c) <=> Len(calls[c]) = 1
               /\ calls[c] = <<>> =>
                      \/ handlerAction[c] = "Continue" /\ sent[c] = <<>>
                      \/ handlerAction[c] = "Pause" /\ Len(sent[c]) = 1
        /\ HandlerRan(c) =>
               (PausedWithoutResponse(c) /\ resumed[c] = 0) <=> pending[c]

C26_Witness ==
    \E c \in Ctx :
        /\ IsServer(c) /\ HandlerRan(c) /\ ~CallbackRan(c)
        /\ PausedWithoutResponse(c)
        /\ Len(calls[c]) = 1 /\ pending[c]

\* What a stream is left with when its request runs alone: the header
\* handler on the request as it arrived, then (if the dispatch was accepted
\* and its result r delivered) the callback on r.
AloneServer(hs, accepted, refused, results) ==
    LET e == ServerHeaders(hs)
        o == IF results = <<>>
             THEN [sent |-> <<>>, headers |-> hs, resume |-> FALSE]
             ELSE ServerCallOutcome(results[1], e.ctx.principalID, hs)
    IN [action |-> e.action,
        fields |-> <<e.ctx.requestPath, e.ctx.requestMethod, e.ctx.jwtToken,
                     e.ctx.principalID, e.ctx.assetID>>,
        calls |-> IF accepted THEN <<PDPCall(e.ctx.principalID, e.ctx.assetID)>>
                  ELSE <<>>,
        sent |-> (IF refused THEN PolicyFailure(hs).sent ELSE e.sent) \o o.sent,
        headers |-> o.headers,
        resumed |-> IF o.resume THEN 1 ELSE 0]

AloneClient(hs, accepted, results) ==
    LET o == IF results = <<>> THEN [headers |-> hs, resume |-> FALSE]
             ELSE ClientCallOutcome(results[1], hs)
    IN [action |-> IF accepted THEN "Pause" ELSE "Continue",
        fields |-> <<<<>>, <<>>, <<>>, <<>>, <<>>>>,
        calls |-> IF accepted THEN <<TokenCall>> ELSE <<>>,
        sent |-> <<>>,
        headers |-> o.headers,
        resumed |-> IF o.resume THEN 1 ELSE 0]

\* What a stream is left with, as the host and its httpContext hold it.
StreamOutcome(c) ==
    [action |-> handlerAction[c],
     fields |-> <<requestPath[c], requestMethod[c], jwtToken[c], principalID[c],
                  assetID[c]>>,
     calls |-> calls[c],
     sent |-> sent[c],
     headers |-> reqHeaders[c],
     resumed |-> resumed[c]]

\* Everything of one stream.
StreamState(c) ==
    <<filter[c], origHeaders[c], StreamOutcome(c), attempts[c], pending[c],
      delivered[c], calloutID[c]>>

\* C27: with several streams in flight and their header events and
\* callbacks interleaved in any order, each stream is left with what its
\* request gives when run alone (same host answers), and a step of one
\* stream changes nothing of another.
C27_RequestIsolation ==
    /\ [](\A c \in Streams :
             HandlerRan(c) =>
                 StreamOutcome(c) =
                     IF IsServer(c)
                     THEN AloneServer(origHeaders[c], calls[c] # <<>>,
                                      DispatchFailed(c), delivered[c])
                     ELSE AloneClient(origHeaders[c], calls[c] # <<>>, delivered[c]))
    /\ [][\A c, d \in Streams :
             (c # d /\ StreamState(c)' # StreamState(c)) =>
                 StreamState(d)' = StreamState(d)]_vars

C27_Witness ==
    \E c, d \in Streams :
        /\ IsServer(c) /\ IsServer(d)
        /\ calloutID[c] < calloutID[d]
        /\ principalID[c] # principalID[d]
        /\ CallbackRan(c) /\ FirstDecisionIs(c, "Deny") /\ TerminatedWith(c, 403)
        /\ CallbackRan(d) /\ FirstDecisionIs(d, "Allow") /\ resumed[d] = 1
        /\ \E i \in 1..Len(reqHeaders[d]) :
               reqHeaders[d][i] = <<"X-Principal-ID", principalID[d]>>

\* The principal as the claim names it: the caller's X-Service-ID header
\* when there is one and it is not empty, "service-a" otherwise.
ExpectedPrincipal(c) ==
    LET ids == Values(origHeaders[c], "X-Service-ID")
    IN IF ids # <<>> /\ ids[1] # <<>> THEN ids[1] ELSE <<"service-a">>

\* C28: the server filter changes request headers only when the first
\* decision is Allow: the headers are then the caller's, unchanged and in
\* order, followed by X-PDP-Decision, X-PDP-Reason and X-Principal-ID; in
\* every other case, and on every terminating path, they are as the caller
\* sent them.
C28_HeadersOnlyOnAllow ==
    \A c \in Ctx :
        IsServer(c) =>
            /\ IF FirstDecisionIs(c, "Allow")
               THEN reqHeaders[c] =
                        origHeaders[c]
                        \o << <<"X-PDP-Decision", <<"Allow">>>>,
                              <<"X-PDP-Reason", Result(c).decisions[1].reason>>,
                              <<"X-Principal-ID", ExpectedPrincipal(c)>> >>
               ELSE Unmutated(c)
            /\ IsTerminated(c) => Unmutated(c)

C28_Witness ==
    \E c \in Ctx :
        /\ IsServer(c) /\ FirstDecisionIs(c, "Allow")
        /\ HasHeader(origHeaders[c], "X-PDP-Decision")
        /\ Len(reqHeaders[c]) = Len(origHeaders[c]) + 3
        /\ Values(reqHeaders[c], "X-PDP-Decision") = << <<"Deny">>, <<"Allow">> >>

\* The request carries :path and :method and a bearer token that splits
\* into three segments on ".".
ThreeSegmentToken(c) ==
    /\ HasPseudoHeaders(c)
    /\ ~CredentialMissing(c)
    /\ HasPrefix(Credential(c).val, Bearer)
    /\ Len(Split(BearerToken(c), Dot)) = 3

\* The request with another bearer token in its Authorization header.
WithToken(hs, token) ==
    [i \in 1..Len(hs) |->
        IF hs[i][1] = "Authorization" THEN <<"Authorization", Bearer \o token>>
        ELSE hs[i]]

\* Three-segment tokens: a well-formed one, one whose payload is no
\* base64url text, one signed with another key.
ThreeSegmentTokens == {TokenA, TokenUndecodable, TokenWrongKey}

C30_AssetIsQueryParameter ==
    \A c \in Ctx :
        (IsServer(c) /\ HandlerRan(c) /\ attempts[c] = 1) =>
            LET asset == QueryValue(requestPath[c], "asset")
            IN /\ extractAssetFromPath(requestPath[c]) = asset
               /\ assetID[c] = IF asset = <<>> THEN <<"default-asset">> ELSE asset

(***************************************************************************)
(* Claims C31 - C39                                                        *)
(***************************************************************************)
\* The tokens the vending service issues to Service A.
IssuedTokens ==
    { TokenEndpoint(<<"/token/valid">>, serviceID).token,
      TokenEndpoint(<<"/token/invalid">>, serviceID).token }

\* Service A's request to Service B was sent.
CalledServiceB == wire # <<>>
TokenFailed == tokenErr \in {"transport", "status", "decode"}

\* C31: Service A sends its request to Service B only after getJWTToken
\* returned a token of the vending service and no error, and that request
\* carries the token; when getJWTToken fails (transport error, status other
\* than 200, body that does not decode) Service A answers 500 with success
\* false and no request to Service B is ever sent.
C31_TokenBeforeCall ==
    /\ CalledServiceB =>
          /\ tokenErr = "nil"
          /\ tokenOfA \in IssuedTokens
          /\ stage \notin {"idle", "token", "call"}
    /\ stage = "egress" => HeaderGet(wire, "Authorization") = Bearer \o tokenOfA
    /\ TokenFailed =>
          /\ stage = "done"
          /\ reply = [status |-> 500, success |-> FALSE]
          /\ ~CalledServiceB
          /\ downstream = NoResponse
          /\ responseFromB = NoResult

C31_Witness ==
    /\ tokenErr = "decode"
    /\ reply.status = 500
    /\ ~CalledServiceB

\* callServiceB got a response to its request, from Service B or from the
\* sidecar in front of it.
ServiceBAnswered == downstream # NoResponse
Replied == stage = "done" /\ tokenErr = "nil"

C33_DefaultsToValidToken ==
    (callBody.use_valid_token = "omitted" /\ tokenErr = "nil") =>
        tokenOfA = TokenEndpoint(<<"/token/valid">>, serviceID).token

\* The request went on to the application: the header handler returned
\* Continue, or the request was resumed.
Passed(c) == handlerAction[c] = "Continue" \/ resumed[c] > 0

\* C34: an inbound request goes on to the application only after a call
\* result whose first decision is exactly "Allow" was delivered.
C34_PassOnlyAfterAllow ==
    \A c \in Ctx : (IsServer(c) /\ Passed(c)) => FirstDecisionIs(c, "Allow")

\* The call result parsed to a decision list whose first decision is not
\* exactly "Allow".
FirstDecisionOther(c) ==
    /\ CallbackRan(c)
    /\ Result(c).body = "parsed"
    /\ Result(c).decisions # <<>>
    /\ Result(c).decisions[1].decision # "Allow"

\* C35: when the first decision is anything but exactly "Allow" ("Deny",
\* the empty string, "allow", ...), the request ends with one 403 and is
\* not resumed.
C35_NotAllowIsDenial ==
    \A c \in Ctx :
        (IsServer(c) /\ FirstDecisionOther(c)) =>
            /\ TerminatedWith(c, 403)
            /\ ~Passed(c)
            /\ Unmutated(c)

C35_Witness ==
    /\ IsServer(1)
    /\ FirstDecisionOther(1)
    /\ Result(1).decisions[1].decision = "allow"
    /\ TerminatedWith(1, 403)

\* C36: every synthesized response of the server filter has status 401 or
\* 403; a 401 exists only when the header handler ran and no dispatch was
\* attempted and no callback ran, a 403 only when a dispatch was attempted;
\* the handler's own 403 is the one that follows a refused dispatch.
C36_StatusByPhase ==
    \A c \in Ctx :
        IsServer(c) =>
            \A i \in 1..Len(sent[c]) :
                /\ sent[c][i].status \in {401, 403}
                /\ sent[c][i].status = 401 =>
                      (HandlerRan(c) /\ attempts[c] = 0 /\ ~CallbackRan(c))
                /\ sent[c][i].status = 403 =>
                      (attempts[c] >= 1 /\ (DispatchFailed(c) \/ CallbackRan(c)))

C36_Witness ==
    /\ IsServer(1)
    /\ DispatchFailed(1)
    /\ Len(sent[1]) = 1
    /\ sent[1][1].status = 403
    /\ ~CallbackRan(1)

\* C37: the outcome of a call result does not depend on its HTTP status: a
\* result whose first decision is Allow resumes the request under every
\* status, and every result ends as the same result with any other status
\* does.
C37_StatusIgnored ==
    \A c \in Ctx :
        (IsServer(c) /\ CallbackRan(c)) =>
            /\ FirstDecisionIs(c, "Allow") =>
                  (resumed[c] = 1 /\ sent[c] = <<>>)
            /\ \A st \in CallStatuses :
                  LET o == ServerCallOutcome([Result(c) EXCEPT !.status = st],
                                             principalID[c], origHeaders[c])
                  IN /\ sent[c] = o.sent
                     /\ reqHeaders[c] = o.headers
                     /\ resumed[c] = IF o.resume THEN 1 ELSE 0

C37_Witness ==
    /\ IsServer(1)
    /\ FirstDecisionIs(1, "Allow")
    /\ Result(1).status = 500
    /\ resumed[1] = 1
    /\ sent[1] = <<>>

\* The token /token/valid issues for service-a.
ValidToken == TokenEndpoint(<<"/token/valid">>, serviceID).token

\* The egress callback was handed an answer that holds a token.
EgressGotToken ==
    /\ issuerAnswer.cause = "response"
    /\ issuerAnswer.body = "parsed"
    /\ issuerAnswer.token # <<>>

\* The request left Service A's sidecar; the server filter's header handler
\* ran on it.
LeftEgress == CalledServiceB /\ stage \notin {"egress", "egressWait"}
IngressRan == LeftEgress /\ stage # "ingress"

ProcessAnswered == stage = "reply" /\ downstream.from = "service-b"
DecisionHeader == HeaderGet(wire, "X-PDP-Decision")

\* The request carries "Bearer " and a token of three segments whose header
\* and payload decode.
ParseableBearer ==
    LET auth == HeaderGet(wire, "Authorization")
        parts == Split(TrimPrefix(auth, Bearer), Dot)
    IN /\ HasPrefix(auth, Bearer)
       /\ Len(parts) = 3
       /\ parts[1] = <<JwtHeader>>
       /\ DecodePayload(parts[2]).ok

\* The answer is a ServiceBResponse with "authorized":true.
ReportsAuthorized ==
    /\ IsJSONObject(downstreamBody)
    /\ \E i \in 1..(Len(downstreamBody) - 4) :
          SubSeq(downstreamBody, i, i + 4) = <<"\"", "authorized", "\"", ":", "true">>

\* C39 as stated: Service B answers 403 whenever X-PDP-Decision is "Deny",
\* and answers every other request with a parseable bearer token with
\* authorized=true.
C39_DenyHeaderIs403 ==
    ProcessAnswered =>
        IF DecisionHeader = <<"Deny">>
        THEN downstream.status = 403
        ELSE ParseableBearer => (downstream.status = 200 /\ ReportsAuthorized)

\* C39, amended: Service B answers 405 to a request that is no GET and 401
\* to a GET without a parseable bearer token, whatever X-PDP-Decision says;
\* a GET with a parseable bearer token gets 403 exactly when the first
\* X-PDP-Decision value is "Deny" and 200 with authorized=true otherwise,
\* also without the header.  No request with the header "Deny" gets a 200.
C39_DenyAfterTokenCheck ==
    ProcessAnswered =>
        /\ HeaderGet(wire, ":method") # <<"GET">> => downstream.status = 405
        /\ (HeaderGet(wire, ":method") = <<"GET">> /\ ~ParseableBearer) =>
              downstream.status = 401
        /\ (HeaderGet(wire, ":method") = <<"GET">> /\ ParseableBearer) =>
              IF DecisionHeader = <<"Deny">>
              THEN downstream.status = 403 /\ ~ReportsAuthorized
              ELSE downstream.status = 200 /\ ReportsAuthorized
        /\ DecisionHeader = <<"Deny">> => downstream.status # 200

C39_Witness ==
    /\ ProcessAnswered
    /\ HeaderGet(wire, ":method") = <<"GET">>
    /\ ParseableBearer
    /\ ~HasHeader(wire, "X-PDP-Decision")
    /\ downstream.status = 200
    /\ ReportsAuthorized

====
